---- MODULE Spec2Model ----
(***************************************************************************)
(* Model of the CSV price analyzer: the line tokenizer and row parser      *)
(* (CSVAnalyzer::split_csv_line / parse_line), the four incremental        *)
(* indicators, the per-symbol Series, the symbol registry and the          *)
(* streaming loop of CSVAnalyzer::process_file.                            *)
(*                                                                         *)
(* Representation.                                                         *)
(*  - A std::string is a sequence of one-character strings.                *)
(*  - A const char* into a line buffer is the 0-based offset into the      *)
(*    line; the byte at offset Len(line) is the terminating NUL.  The      *)
(*    value-initialised pointer of an unassigned FieldRange is NullPtr.    *)
(*  - A double is an exact rational [n, d] in lowest terms with d > 0;     *)
(*    NaN is [n |-> 0, d |-> 0] and +/-infinity is [n |-> +/-1, d |-> 0].  *)
(*    Rounding error of binary floating point is not modelled, except in   *)
(*    VolatilityValueFl, which rounds every operation (see Fl).            *)
(***************************************************************************)
EXTENDS Integers, Sequences, FiniteSets, TLC

\* ------------------------------------------------------------------------
\* Bounds of the model
\* ------------------------------------------------------------------------
MaxLineFields == 5      \* a tokenizer input has at most this many comma-separated fields
MaxLines == 3           \* the input file has at most this many lines
MaxArgs == 2            \* the command line has at most this many arguments
MaxUpdates == 4         \* an indicator driven directly gets at most this many updates
MantissaBits == 3       \* significand width of the rounded arithmetic (a double has 53)

\* ------------------------------------------------------------------------
\* double arithmetic (exact rationals)
\* ------------------------------------------------------------------------
Abs(x) == IF x < 0 THEN -x ELSE x

RECURSIVE GCD(_, _)
GCD(a, b) == IF b = 0 THEN a ELSE GCD(b, a % b)

\* n / d; 0.0 / 0.0 is NaN and x / 0.0 is +/-infinity.
Q(n, d) ==
    LET g == GCD(Abs(n), Abs(d))
        s == IF d < 0 THEN -1 ELSE 1
    IN  IF g = 0 THEN [n |-> 0, d |-> 0]
        ELSE [n |-> (s * n) \div g, d |-> (s * d) \div g]

Zero == [n |-> 0, d |-> 1]
One == [n |-> 1, d |-> 1]
NaN == [n |-> 0, d |-> 0]
Infinity == [n |-> 1, d |-> 0]
QInt(k) == [n |-> k, d |-> 1]

QAdd(x, y) == Q(x.n * y.d + y.n * x.d, x.d * y.d)
QSub(x, y) == Q(x.n * y.d - y.n * x.d, x.d * y.d)
QMul(x, y) == Q(x.n * y.n, x.d * y.d)
QDiv(x, y) == Q(x.n * y.d, x.d * y.n)
QNeg(x) == [n |-> -x.n, d |-> x.d]
QLe(x, y) == x.n * y.d <= y.n * x.d

RECURSIVE Pow10(_)
Pow10(k) == IF k = 0 THEN 1 ELSE 10 * Pow10(k - 1)

\* ------------------------------------------------------------------------
\* Characters and line buffers
\* ------------------------------------------------------------------------
NUL == "NUL"
NullPtr == -1
Digits == {"0", "1", "2", "3", "4", "5", "6", "7", "8", "9"}
Whitespace == {" ", "\t", "\n", "\r", "\f"}

DigitVal(c) ==
    CASE c = "0" -> 0 [] c = "1" -> 1 [] c = "2" -> 2 [] c = "3" -> 3
      [] c = "4" -> 4 [] c = "5" -> 5 [] c = "6" -> 6 [] c = "7" -> 7
      [] c = "8" -> 8 [] c = "9" -> 9

\* The byte at offset p of the NUL-terminated buffer line.data().
CharAt(line, p) == IF p < Len(line) THEN line[p + 1] ELSE NUL

\* std::string(start, length) with the leading blanks of the span dropped.
FieldTextTrimmed(line, f) ==
    LET text == IF f.length = 0 THEN << >>
                ELSE SubSeq(line, f.start + 1, f.start + f.length)
        first == IF \A i \in 1..Len(text) : text[i] = " " THEN Len(text) + 1
                 ELSE CHOOSE i \in 1..Len(text) :
                          text[i] # " " /\ \A j \in 1..(i - 1) : text[j] = " "
    IN  SubSeq(text, first, Len(text))

\* std::string(start, length): the characters of a field span.  A span with
\* length 0 yields the empty string whatever its start pointer is.
FieldText(line, f) ==
    IF f.length = 0 THEN << >> ELSE SubSeq(line, f.start + 1, f.start + f.length)

\* FieldRange::end()
FieldEnd(f) == IF f.start = NullPtr THEN NullPtr ELSE f.start + f.length

\* ------------------------------------------------------------------------
\* Tokenizer: CSVAnalyzer::split_csv_line
\* ------------------------------------------------------------------------
EmptyFields == [k \in 0..3 |-> [start |-> NullPtr, length |-> 0]]

\* One iteration of the for loop (i, field_index, start, fields) and all
\* following ones, until i > line.length() or field_index = 4.
RECURSIVE SplitLoop(_, _, _, _, _)
SplitLoop(line, i, field_index, start, fields) ==
    IF ~(i <= Len(line) /\ field_index < 4)
    THEN fields
    ELSE IF i = Len(line) \/ line[i + 1] = ","
         THEN SplitLoop(line, i + 1, field_index + 1, i + 1,
                  [fields EXCEPT ![field_index] =
                      [start |-> start, length |-> i - start]])
         ELSE SplitLoop(line, i + 1, field_index, start, fields)

split_csv_line(line) == SplitLoop(line, 0, 0, 0, EmptyFields)

\* ------------------------------------------------------------------------
\* strtod (C locale) on the NUL-terminated line buffer
\* ------------------------------------------------------------------------
\* First offset >= p whose byte is not in S (NUL is in no S, so this stops).
RECURSIVE SkipSet(_, _, _)
SkipSet(line, p, S) ==
    IF CharAt(line, p) \in S THEN SkipSet(line, p + 1, S) ELSE p

\* Value of the decimal digit string at offsets [from, to).
RECURSIVE DigitsValue(_, _, _)
DigitsValue(line, from, to) ==
    IF from >= to THEN 0
    ELSE 10 * DigitsValue(line, from, to - 1) + DigitVal(CharAt(line, to - 1))

\* Case-insensitive match of word (a sequence of lower-case letters and their
\* upper-case forms, given as two-element sets) at offset p.
MatchWord(line, p, word) ==
    \A k \in 1..Len(word) : CharAt(line, p + k - 1) \in word[k]

WordNan == << {"n", "N"}, {"a", "A"}, {"n", "N"} >>
WordInf == << {"i", "I"}, {"n", "N"}, {"f", "F"} >>
WordInfinity == WordInf \o << {"i", "I"}, {"n", "N"}, {"i", "I"}, {"t", "T"}, {"y", "Y"} >>

\* strtod(line.data() + start, &end_ptr): skips leading white space, takes an
\* optional sign, then the longest decimal floating literal
\* (digits [. digits] | . digits) [e|E [sign] digits], or inf / infinity /
\* nan.  Without a conversion it returns 0 and end_ptr = start.  Hexadecimal
\* literals (0x...) and nan(...) payloads are not in any input of this model.
Strtod(line, start) ==
    LET p0 == SkipSet(line, start, Whitespace)
        neg == CharAt(line, p0) = "-"
        p1 == IF CharAt(line, p0) \in {"+", "-"} THEN p0 + 1 ELSE p0
        p2 == SkipSet(line, p1, Digits)
        hasDot == CharAt(line, p2) = "."
        p3 == IF hasDot THEN SkipSet(line, p2 + 1, Digits) ELSE p2
        nInt == p2 - p1
        nFrac == IF hasDot THEN p3 - (p2 + 1) ELSE 0
        hasE == CharAt(line, p3) \in {"e", "E"}
        eneg == CharAt(line, p3 + 1) = "-"
        e1 == IF CharAt(line, p3 + 1) \in {"+", "-"} THEN p3 + 2 ELSE p3 + 1
        e2 == SkipSet(line, e1, Digits)
        expOK == hasE /\ e2 > e1
        mant == Q(DigitsValue(line, p1, p2) * Pow10(nFrac)
                     + DigitsValue(line, p2 + 1, p3), Pow10(nFrac))
        scaled == IF ~expOK THEN mant
                  ELSE IF eneg THEN QDiv(mant, QInt(Pow10(DigitsValue(line, e1, e2))))
                  ELSE QMul(mant, QInt(Pow10(DigitsValue(line, e1, e2))))
        signed(v) == IF neg THEN QNeg(v) ELSE v
    IN  IF nInt + nFrac > 0
        THEN [value |-> signed(scaled), end_ptr |-> IF expOK THEN e2 ELSE p3]
        ELSE IF MatchWord(line, p1, WordInfinity)
        THEN [value |-> signed(Infinity), end_ptr |-> p1 + 8]
        ELSE IF MatchWord(line, p1, WordInf)
        THEN [value |-> signed(Infinity), end_ptr |-> p1 + 3]
        ELSE IF MatchWord(line, p1, WordNan)
        THEN [value |-> NaN, end_ptr |-> p1 + 3]
        ELSE [value |-> Zero, end_ptr |-> start]

\* ------------------------------------------------------------------------
\* std::from_chars(first, last, long&), base 10
\* ------------------------------------------------------------------------
\* First offset in [p, last] that is last or holds a non-digit.
RECURSIVE SkipDigitsUntil(_, _, _)
SkipDigitsUntil(line, p, last) ==
    IF p < last /\ line[p + 1] \in Digits
    THEN SkipDigitsUntil(line, p + 1, last) ELSE p

\* Reads only [first, last): an optional '-' and the longest run of digits.
\* No digit: ec = invalid_argument.  Otherwise ec = {} and ptr is the first
\* unread character; ptr may be before last.  (result_out_of_range needs a
\* value beyond LONG_MAX = 2^63 - 1; no input of this model is that long.)
from_chars(line, first, last) ==
    IF first = last
    THEN [ec |-> "invalid_argument", value |-> 0, ptr |-> first]
    ELSE LET neg == line[first + 1] = "-"
             d0 == IF neg THEN first + 1 ELSE first
             d1 == SkipDigitsUntil(line, d0, last)
             v == DigitsValue(line, d0, d1)
         IN  IF d1 = d0
             THEN [ec |-> "invalid_argument", value |-> 0, ptr |-> first]
             ELSE [ec |-> "ok", value |-> IF neg THEN -v ELSE v, ptr |-> d1]

\* ------------------------------------------------------------------------
\* Row parser: CSVAnalyzer::parse_line
\* ------------------------------------------------------------------------
\* ParsedRow::invalid()
InvalidRow ==
    [timestamp |-> << >>, symbol |-> << >>, price |-> Zero, volume |-> 0,
     is_valid |-> FALSE]

Returned(row) == [kind |-> "returned", row |-> row]
Crashed == [kind |-> "crashed"]

\* strtod(nullptr, &end_ptr) reads through a null pointer: undefined
\* behaviour.  The process is killed by the access, or (where address 0 is
\* readable and holds no number) strtod converts nothing and leaves
\* end_ptr = nullptr = fields[2].start, so the row is rejected.
StrtodNullOutcomes == {Crashed, Returned(InvalidRow)}

\* The set of outcomes of parse_line(line).
parse_line(line) ==
    LET fields == split_csv_line(line)
        timestamp == FieldText(line, fields[0])
        symbol == FieldText(line, fields[1])
    IN  \* fields.size() != 4 is never true of a std::array<FieldRange, 4>
        IF fields[2].start = NullPtr
        THEN StrtodNullOutcomes
        ELSE LET conv == Strtod(line, fields[2].start)
                 vol_result == from_chars(line, fields[3].start, FieldEnd(fields[3]))
             IN  IF conv.end_ptr = fields[2].start
                    \/ conv.end_ptr # FieldEnd(fields[2])
                 THEN {Returned(InvalidRow)}
                 ELSE IF vol_result.ec # "ok"
                 THEN {Returned(InvalidRow)}
                 ELSE {Returned([timestamp |-> timestamp, symbol |-> symbol,
                                 price |-> conv.value,
                                 volume |-> vol_result.value,
                                 is_valid |-> TRUE])}

\* ------------------------------------------------------------------------
\* Indicators (indicators.hpp).  All arithmetic below is on finite doubles.
\* ------------------------------------------------------------------------
RECURSIVE SeqSum(_)
SeqSum(xs) == IF xs = << >> THEN Zero ELSE QAdd(SeqSum(Tail(xs)), Head(xs))

\* deque.size() > window_size, where size() is a size_t and the window an int
\* (SMAIndicator) or a size_t built from an int (VolatilityIndicator): a
\* negative window converts to 2^64 + window, which no size exceeds.
SizeExceeds(size, window_size) ==
    IF window_size < 0 THEN FALSE ELSE size > window_size

\* SMAIndicator(window)
NewSMA(window) == [prices |-> << >>, window_size |-> window]

\* SMAIndicator::update evicting with pop_back: the newest price goes.
SMAUpdateEvictsNewest(sma, price) ==
    LET pushed == Append(sma.prices, price)
    IN  [sma EXCEPT !.prices =
            IF SizeExceeds(Len(pushed), sma.window_size)
            THEN SubSeq(pushed, 1, Len(pushed) - 1) ELSE pushed]

\* SMAIndicator::update
SMAUpdate(sma, price) ==
    LET pushed == Append(sma.prices, price)
    IN  [sma EXCEPT !.prices =
            IF SizeExceeds(Len(pushed), sma.window_size) THEN Tail(pushed) ELSE pushed]

\* SMAIndicator::get_value dividing by the window size, not by the count.
SMAValueByWindow(sma) ==
    IF sma.prices = << >> THEN Zero
    ELSE QDiv(SeqSum(sma.prices), QInt(sma.window_size))

\* SMAIndicator::get_value
SMAValue(sma) ==
    IF sma.prices = << >> THEN Zero
    ELSE QDiv(SeqSum(sma.prices), QInt(Len(sma.prices)))

\* EMAIndicator(smoothing_factor)
NewEMA(smoothing_factor) ==
    [current_ema |-> Zero, alpha |-> smoothing_factor, first_price |-> TRUE]

\* EMAIndicator::update smoothing from 0.0 on the first price too.
EMAUpdateNoSeed(ema, price) ==
    [ema EXCEPT !.current_ema =
        QAdd(QMul(ema.alpha, price), QMul(QSub(One, ema.alpha), ema.current_ema)),
                !.first_price = FALSE]

\* EMAIndicator::update that never clears first_price.
EMAUpdateReseeds(ema, price) ==
    IF ema.first_price
    THEN [ema EXCEPT !.current_ema = price]
    ELSE [ema EXCEPT !.current_ema =
             QAdd(QMul(ema.alpha, price), QMul(QSub(One, ema.alpha), ema.current_ema))]

\* EMAIndicator::update
EMAUpdate(ema, price) ==
    IF ema.first_price
    THEN [ema EXCEPT !.current_ema = price, !.first_price = FALSE]
    ELSE [ema EXCEPT !.current_ema =
             QAdd(QMul(ema.alpha, price), QMul(QSub(One, ema.alpha), ema.current_ema))]

\* EMAIndicator::get_value
EMAValue(ema) == ema.current_ema

\* VolatilityIndicator(window)
NewVolatility(window) == [returns |-> << >>, window_size |-> window]

\* VolatilityIndicator::update evicting at size() >= window_size.
VolatilityUpdateEvictsAtWindow(vol, return_val) ==
    LET pushed == Append(vol.returns, return_val)
    IN  [vol EXCEPT !.returns =
            IF SizeExceeds(Len(pushed) + 1, vol.window_size)
            THEN Tail(pushed) ELSE pushed]

\* VolatilityIndicator::update
VolatilityUpdate(vol, return_val) ==
    LET pushed == Append(vol.returns, return_val)
    IN  [vol EXCEPT !.returns =
            IF SizeExceeds(Len(pushed), vol.window_size) THEN Tail(pushed) ELSE pushed]

\* Largest r in lo..hi with r * r <= k.
RECURSIVE ISqrtIn(_, _, _)
ISqrtIn(k, lo, hi) ==
    IF lo >= hi THEN lo
    ELSE LET mid == (lo + hi + 1) \div 2
         IN  IF mid * mid <= k THEN ISqrtIn(k, mid, hi) ELSE ISqrtIn(k, lo, mid - 1)

ISqrt(k) == ISqrtIn(k, 0, IF k < 46340 THEN k ELSE 46340)

\* std::sqrt of a non-negative double: the exact root when the argument is
\* the square of a rational, and otherwise the irrational number named by
\* its square.
Sqrt(x) ==
    IF ISqrt(x.n) * ISqrt(x.n) = x.n /\ ISqrt(x.d) * ISqrt(x.d) = x.d
    THEN [n |-> ISqrt(x.n), d |-> ISqrt(x.d)]
    ELSE [sqrt_of |-> x]

RECURSIVE SumSquaredDiffs(_, _)
SumSquaredDiffs(xs, mean) ==
    IF xs = << >> THEN Zero
    ELSE LET diff == QSub(Head(xs), mean)
         IN  QAdd(SumSquaredDiffs(Tail(xs), mean), QMul(diff, diff))

\* VolatilityIndicator::get_value
VolatilityValue(vol) ==
    IF Len(vol.returns) < 2 THEN Zero
    ELSE LET n == Len(vol.returns)
             mean == QDiv(SeqSum(vol.returns), QInt(n))
             variance == QDiv(SumSquaredDiffs(vol.returns, mean), QInt(n - 1))
         IN  Sqrt(variance)

\* ------------------------------------------------------------------------
\* double arithmetic with rounding: every operation rounds its exact result
\* to the nearest binary floating-point number of MantissaBits significant
\* bits, ties to even (the exponent range is not limited).
\* ------------------------------------------------------------------------
RECURSIVE Pow2(_)
Pow2(k) == IF k = 0 THEN 1 ELSE 2 * Pow2(k - 1)

\* n / d > 0 as (n / d) * 2^e with 2^(MantissaBits-1) <= n / d < 2^MantissaBits
RECURSIVE FlScale(_, _, _)
FlScale(n, d, e) ==
    IF n < Pow2(MantissaBits - 1) * d THEN FlScale(2 * n, d, e - 1)
    ELSE IF n >= Pow2(MantissaBits) * d THEN FlScale(n, 2 * d, e + 1)
    ELSE [n |-> n, d |-> d, e |-> e]

\* The floating-point number nearest to x.
Fl(x) ==
    IF x.d = 0 \/ x.n = 0 THEN x
    ELSE LET s == FlScale(Abs(x.n), x.d, 0)
             m == s.n \div s.d
             rem == s.n % s.d
             up == 2 * rem > s.d \/ (2 * rem = s.d /\ m % 2 = 1)
             mant == IF up THEN m + 1 ELSE m
             mag == IF s.e >= 0 THEN Q(mant * Pow2(s.e), 1) ELSE Q(mant, Pow2(-s.e))
         IN  IF x.n < 0 THEN QNeg(mag) ELSE mag

FlAdd(x, y) == Fl(QAdd(x, y))
FlSub(x, y) == Fl(QSub(x, y))
FlMul(x, y) == Fl(QMul(x, y))
FlDiv(x, y) == Fl(QDiv(x, y))

\* std::accumulate(begin, end, init): init + x1 + x2 + ..., left to right
RECURSIVE FlAccumulate(_, _)
FlAccumulate(xs, init) ==
    IF xs = << >> THEN init ELSE FlAccumulate(Tail(xs), FlAdd(init, Head(xs)))

\* double mean = std::accumulate(returns.begin(), returns.end(), 0.0) / n
VolatilityMean(vol) ==
    FlDiv(FlAccumulate(vol.returns, Zero), QInt(Len(vol.returns)))

\* The loop over the returns: sum_squared_diffs += diff * diff
RECURSIVE FlSumSquaredDiffs(_, _, _)
FlSumSquaredDiffs(xs, mean, sum_squared_diffs) ==
    IF xs = << >> THEN sum_squared_diffs
    ELSE LET diff == FlSub(Head(xs), mean)
         IN  FlSumSquaredDiffs(Tail(xs), mean,
                 FlAdd(sum_squared_diffs, FlMul(diff, diff)))

\* EMAIndicator::update in rounded arithmetic, with 1 + alpha for 1 - alpha.
EMAUpdateFlOnePlusAlpha(ema, price) ==
    IF ema.first_price
    THEN [ema EXCEPT !.current_ema = price, !.first_price = FALSE]
    ELSE [ema EXCEPT !.current_ema =
             FlAdd(FlMul(ema.alpha, price),
                   FlMul(FlAdd(One, ema.alpha), ema.current_ema))]

\* EMAIndicator::update in rounded arithmetic:
\* current_ema = alpha * price + (1 - alpha) * current_ema
EMAUpdateFl(ema, price) ==
    IF ema.first_price
    THEN [ema EXCEPT !.current_ema = price, !.first_price = FALSE]
    ELSE [ema EXCEPT !.current_ema =
             FlAdd(FlMul(ema.alpha, price),
                   FlMul(FlSub(One, ema.alpha), ema.current_ema))]

\* update(prices[1]); update(prices[2]); ... in rounded arithmetic
RECURSIVE EMAUpdatesFl(_, _)
EMAUpdatesFl(ema, prices) ==
    IF prices = << >> THEN ema
    ELSE EMAUpdatesFl(EMAUpdateFl(ema, Head(prices)), Tail(prices))

\* VolatilityIndicator::get_value in rounded arithmetic, with the size check
\* against 1 instead of 2.
VolatilityValueFlFromOne(vol) ==
    IF Len(vol.returns) < 1 THEN Zero
    ELSE LET n == Len(vol.returns)
             mean == VolatilityMean(vol)
             variance == FlDiv(FlSumSquaredDiffs(vol.returns, mean, Zero), QInt(n - 1))
         IN  Sqrt(variance)

\* VolatilityIndicator::get_value in rounded arithmetic.  The square root is
\* left unrounded: it is 0.0 exactly when the variance is.
VolatilityValueFl(vol) ==
    IF Len(vol.returns) < 2 THEN Zero
    ELSE LET n == Len(vol.returns)
             mean == VolatilityMean(vol)
             variance == FlDiv(FlSumSquaredDiffs(vol.returns, mean, Zero), QInt(n - 1))
         IN  Sqrt(variance)

\* Length of the session key: timestamp.substr(0, 10)
DatePrefixLen == 10

\* The whole string instead of its first count characters.
Substr0Whole(str, count) == str

\* std::string::substr(0, count)
Substr0(str, count) ==
    SubSeq(str, 1, IF Len(str) < count THEN Len(str) ELSE count)

\* A default-constructed VWAPIndicator
NewVWAP == [price_volume_sum |-> Zero, volume_sum |-> 0, current_date |-> << >>]

\* VWAPIndicator::update
VWAPUpdate(vwap, price, volume, timestamp) ==
    LET new_date == Substr0(timestamp, DatePrefixLen)
        reset == vwap.current_date # new_date
        pv == IF reset THEN Zero ELSE vwap.price_volume_sum
        vs == IF reset THEN 0 ELSE vwap.volume_sum
    IN  [price_volume_sum |-> QAdd(pv, QMul(price, QInt(volume))),
         volume_sum |-> vs + volume,
         current_date |-> IF reset THEN new_date ELSE vwap.current_date]

\* VWAPIndicator::get_value without the volume_sum == 0 check.
VWAPValueNoGuard(vwap) ==
    QDiv(vwap.price_volume_sum, QInt(vwap.volume_sum))

\* VWAPIndicator::get_value
VWAPValue(vwap) ==
    IF vwap.volume_sum = 0 THEN Zero
    ELSE QDiv(vwap.price_volume_sum, QInt(vwap.volume_sum))

\* ------------------------------------------------------------------------
\* Series
\* ------------------------------------------------------------------------
\* Series(sma_window, ema_alpha, vol_window)
NewSeries(sma_window, ema_alpha, vol_window) ==
    [sma |-> NewSMA(sma_window), ema |-> NewEMA(ema_alpha),
     volatility |-> NewVolatility(vol_window), vwap |-> NewVWAP,
     last_price |-> Zero]

\* Series::update with the first price also fed to SMA, EMA and VWAP.
SeriesUpdateSeedFeeds(series, price, volume, ts) ==
    IF series.last_price = Zero
    THEN [series EXCEPT !.sma = SMAUpdate(series.sma, price),
                        !.ema = EMAUpdate(series.ema, price),
                        !.vwap = VWAPUpdate(series.vwap, price, volume, ts),
                        !.last_price = price]
    ELSE LET return_value == QSub(QDiv(price, series.last_price), One)
         IN  [sma |-> SMAUpdate(series.sma, price),
              ema |-> EMAUpdate(series.ema, price),
              volatility |-> VolatilityUpdate(series.volatility, return_value),
              vwap |-> VWAPUpdate(series.vwap, price, volume, ts),
              last_price |-> price]

\* Series::update without the closing last_price = price: last_price stays
\* at the first price.
SeriesUpdateKeepsLastPrice(series, price, volume, ts) ==
    IF series.last_price = Zero
    THEN [series EXCEPT !.last_price = price]
    ELSE LET return_value == QSub(QDiv(price, series.last_price), One)
         IN  [sma |-> SMAUpdate(series.sma, price),
              ema |-> EMAUpdate(series.ema, price),
              volatility |-> VolatilityUpdate(series.volatility, return_value),
              vwap |-> VWAPUpdate(series.vwap, price, volume, ts),
              last_price |-> series.last_price]

\* Series::update whose first-price branch returns without storing the price.
SeriesUpdateSeedNotStored(series, price, volume, ts) ==
    IF series.last_price = Zero
    THEN series
    ELSE LET return_value == QSub(QDiv(price, series.last_price), One)
         IN  [sma |-> SMAUpdate(series.sma, price),
              ema |-> EMAUpdate(series.ema, price),
              volatility |-> VolatilityUpdate(series.volatility, return_value),
              vwap |-> VWAPUpdate(series.vwap, price, volume, ts),
              last_price |-> price]

\* Series::update without the last_price == 0 test.
SeriesUpdateNoSeedTest(series, price, volume, ts) ==
    LET return_value == QSub(QDiv(price, series.last_price), One)
    IN  [sma |-> SMAUpdate(series.sma, price),
         ema |-> EMAUpdate(series.ema, price),
         volatility |-> VolatilityUpdate(series.volatility, return_value),
         vwap |-> VWAPUpdate(series.vwap, price, volume, ts),
         last_price |-> price]

\* Series::update ignoring a price of 0.0 altogether.
SeriesUpdateZeroIgnored(series, price, volume, ts) ==
    IF price = Zero THEN series
    ELSE IF series.last_price = Zero
    THEN [series EXCEPT !.last_price = price]
    ELSE LET return_value == QSub(QDiv(price, series.last_price), One)
         IN  [sma |-> SMAUpdate(series.sma, price),
              ema |-> EMAUpdate(series.ema, price),
              volatility |-> VolatilityUpdate(series.volatility, return_value),
              vwap |-> VWAPUpdate(series.vwap, price, volume, ts),
              last_price |-> price]

\* Series::update with sma.update(price) ahead of the last_price test.
SeriesUpdateSMAFirst(series, price, volume, ts) ==
    IF series.last_price = Zero
    THEN [series EXCEPT !.sma = SMAUpdate(series.sma, price),
                        !.last_price = price]
    ELSE LET return_value == QSub(QDiv(price, series.last_price), One)
         IN  [sma |-> SMAUpdate(series.sma, price),
              ema |-> EMAUpdate(series.ema, price),
              volatility |-> VolatilityUpdate(series.volatility, return_value),
              vwap |-> VWAPUpdate(series.vwap, price, volume, ts),
              last_price |-> price]

\* Series::update
SeriesUpdate(series, price, volume, ts) ==
    IF series.last_price = Zero
    THEN [series EXCEPT !.last_price = price]
    ELSE LET return_value == QSub(QDiv(price, series.last_price), One)
         IN  [sma |-> SMAUpdate(series.sma, price),
              ema |-> EMAUpdate(series.ema, price),
              volatility |-> VolatilityUpdate(series.volatility, return_value),
              vwap |-> VWAPUpdate(series.vwap, price, volume, ts),
              last_price |-> price]

IndicatorType == {"SMA", "EMA", "VOLATILITY", "VWAP"}

\* throw std::invalid_argument("Unknown Indicator Type")
InvalidArgument == [thrown |-> "std::invalid_argument"]

\* Series::get_indicator with the case of VWAP returning sma.get_value().
get_indicator_vwap_from_sma(series, type) ==
    CASE type = "SMA" -> SMAValue(series.sma)
      [] type = "EMA" -> EMAValue(series.ema)
      [] type = "VOLATILITY" -> VolatilityValue(series.volatility)
      [] type = "VWAP" -> SMAValue(series.sma)
      [] OTHER -> InvalidArgument

\* Series::get_indicator: the value returned, or the exception thrown for a
\* type that is none of the four enumerators.
get_indicator(series, type) ==
    CASE type = "SMA" -> SMAValue(series.sma)
      [] type = "EMA" -> EMAValue(series.ema)
      [] type = "VOLATILITY" -> VolatilityValue(series.volatility)
      [] type = "VWAP" -> VWAPValue(series.vwap)
      [] OTHER -> InvalidArgument

\* ------------------------------------------------------------------------
\* Output formatting: std::to_string
\* ------------------------------------------------------------------------
\* Long division: the next k decimal digits of rem / d after those in acc.
RECURSIVE LongDiv(_, _, _, _)
LongDiv(rem, d, k, acc) ==
    IF k = 0 THEN [digits |-> acc, rem |-> rem]
    ELSE LongDiv((rem * 10) % d, d, k - 1, acc * 10 + ((rem * 10) \div d))

\* std::to_string(double) prints with "%f": six decimals, rounded to nearest
\* (ties to even).  The text is represented by its sign, its integer part and
\* its six decimals read as a number; the text of an irrational root by the
\* square it is the root of.
to_string_double(x) ==
    IF DOMAIN x # {"n", "d"} THEN [text_of_sqrt |-> x.sqrt_of]
    ELSE LET a == Abs(x.n)
             ld == LongDiv(a % x.d, x.d, 6, 0)
             up == 2 * ld.rem > x.d \/ (2 * ld.rem = x.d /\ ld.digits % 2 = 1)
             micros == IF up THEN ld.digits + 1 ELSE ld.digits
         IN  [neg |-> x.n < 0,
              int |-> (a \div x.d) + (IF micros = 1000000 THEN 1 ELSE 0),
              micros |-> IF micros = 1000000 THEN 0 ELSE micros]

DigitChar(k) == << "0", "1", "2", "3", "4", "5", "6", "7", "8", "9" >>[k + 1]

RECURSIVE NatDigits(_)
NatDigits(k) ==
    IF k < 10 THEN << DigitChar(k) >>
    ELSE Append(NatDigits(k \div 10), DigitChar(k % 10))

\* std::to_string(long): the decimal digits
to_string_long(v) == IF v < 0 THEN << "-" >> \o NatDigits(-v) ELSE NatDigits(v)

\* ------------------------------------------------------------------------
\* State of CSVAnalyzer and of a run of process_file
\* ------------------------------------------------------------------------
VARIABLES
    config,        \* CLIConfig
    symbol_data,   \* std::unordered_map<std::string, Series>
    header,        \* the header line written to stdout (<< >>: none yet)
    output,        \* the data rows written to stdout, in order
    pc,            \* position of the run
    line,          \* std::string line of process_file (argument of parse_line)
    parsed_row,    \* result of the last parse_line call
    lines_read,    \* number of lines getline has delivered
    indicator,     \* a single indicator object driven directly: [kind, obj]
    fed,           \* the arguments of the update calls made on it, in order
    argv,          \* argv[1..argc-1] of main (<< >> when the CLIConfig is given)
    file           \* state of the std::ifstream of process_file

vars ==
    << config, symbol_data, header, output, pc, line, parsed_row, lines_read,
       indicator, fed, argv, file >>

\* span_to_alpha
span_to_alpha(span) == Q(2, span + 1)

\* CSVAnalyzer::get_or_create_series evicting the other symbols on insertion.
get_or_create_series_evicting(registry, cfg, symbol) ==
    IF symbol \notin DOMAIN registry
    THEN LET ema_alpha == span_to_alpha(cfg.ema_span)
         IN  (symbol :> NewSeries(cfg.sma_window, ema_alpha, cfg.vol_window))
    ELSE registry

\* CSVAnalyzer::get_or_create_series storing a new Series on every call.
get_or_create_series_replacing(registry, cfg, symbol) ==
    LET ema_alpha == span_to_alpha(cfg.ema_span)
    IN  (symbol :> NewSeries(cfg.sma_window, ema_alpha, cfg.vol_window)) @@ registry

\* CSVAnalyzer::get_or_create_series: the registry after the call (the
\* returned reference is symbol_data[symbol] of that registry).
get_or_create_series(registry, cfg, symbol) ==
    IF symbol \notin DOMAIN registry
    THEN LET ema_alpha == span_to_alpha(cfg.ema_span)
         IN  registry @@ (symbol :> NewSeries(cfg.sma_window, ema_alpha, cfg.vol_window))
    ELSE registry

\* CSVAnalyzer::print_csv_header: the header line, as its column names
print_csv_header(cfg) ==
    << "timestamp", "symbol", "price", "volume" >>
        \o (IF cfg.output_sma THEN << "sma" >> ELSE << >>)
        \o (IF cfg.output_ema THEN << "ema" >> ELSE << >>)
        \o (IF cfg.output_vol THEN << "volatility" >> ELSE << >>)
        \o (IF cfg.output_vwap THEN << "vwap" >> ELSE << >>)

\* CSVAnalyzer::print_csv_row with the vwap column before the volatility column.
print_csv_row_vwap_first(cfg, row, series) ==
    << row.timestamp, row.symbol, to_string_double(row.price), to_string_long(row.volume) >>
        \o (IF cfg.output_sma
            THEN << to_string_double(get_indicator(series, "SMA")) >> ELSE << >>)
        \o (IF cfg.output_ema
            THEN << to_string_double(get_indicator(series, "EMA")) >> ELSE << >>)
        \o (IF cfg.output_vwap
            THEN << to_string_double(get_indicator(series, "VWAP")) >> ELSE << >>)
        \o (IF cfg.output_vol
            THEN << to_string_double(get_indicator(series, "VOLATILITY")) >> ELSE << >>)

\* CSVAnalyzer::print_csv_row: the data line, as its comma-separated columns
print_csv_row(cfg, row, series) ==
    << row.timestamp, row.symbol, to_string_double(row.price), to_string_long(row.volume) >>
        \o (IF cfg.output_sma
            THEN << to_string_double(get_indicator(series, "SMA")) >> ELSE << >>)
        \o (IF cfg.output_ema
            THEN << to_string_double(get_indicator(series, "EMA")) >> ELSE << >>)
        \o (IF cfg.output_vol
            THEN << to_string_double(get_indicator(series, "VOLATILITY")) >> ELSE << >>)
        \o (IF cfg.output_vwap
            THEN << to_string_double(get_indicator(series, "VWAP")) >> ELSE << >>)

\* ------------------------------------------------------------------------
\* Inputs
\* ------------------------------------------------------------------------
Comma == << "," >>

RECURSIVE JoinFields(_)
JoinFields(fs) ==
    IF Len(fs) = 1 THEN fs[1] ELSE fs[1] \o Comma \o JoinFields(Tail(fs))

\* Fields of tokenizer inputs: empty, text, decimal, integer, integer with
\* trailing text, number after a blank, nan.
FieldPool ==
    { << >>, << "t" >>, << "1", ".", "5" >>, << "1", "0" >>, << "1", "0", "a" >>,
      << " ", "1" >>, << "n", "a", "n" >> }

\* Every line of 1..MaxLineFields fields drawn from FieldPool.
ParseInputs ==
    { JoinFields(fs) : fs \in UNION { [1..k -> FieldPool] : k \in 1..MaxLineFields } }

Day1 == << "2", "0", "2", "4", "-", "0", "1", "-", "0", "1", "T", "0", "0", ":", "0", "0" >>
Day2 == << "2", "0", "2", "4", "-", "0", "1", "-", "0", "2", "T", "0", "0", ":", "0", "0" >>
AAPL == << "A", "A", "P", "L" >>
MSFT == << "M", "S", "F", "T" >>

\* Well-formed rows of volume 10: AAPL on two days at prices 0, 1 and 2, and
\* MSFT on the first day at prices 1 and 2.
GoodLines ==
    { JoinFields(<< ts, AAPL, price, << "1", "0" >> >>) :
        ts \in {Day1, Day2}, price \in { << "0" >>, << "1" >>, << "2" >> } }
    \cup
    { JoinFields(<< Day1, MSFT, price, << "1", "0" >> >>) :
        price \in { << "1" >>, << "2" >> } }

\* An empty line and malformed lines: text as price, three fields, one field,
\* five fields, text after the volume.
OddLines ==
    { << >>,
      JoinFields(<< Day1, AAPL, << "x" >>, << "1", "0" >> >>),
      JoinFields(<< Day1, AAPL, << "1" >> >>),
      AAPL,
      JoinFields(<< Day1, MSFT, << "1" >>, << "1", "0" >>, << "x" >> >>),
      JoinFields(<< Day2, AAPL, << "2" >>, << "1", "0", "a", "b", "c" >> >>) }

\* The lines the line source may deliver.
LinePool == GoodLines \cup OddLines

AllOutputs ==
    [output_sma |-> TRUE, output_ema |-> TRUE, output_vol |-> TRUE, output_vwap |-> TRUE]

\* Configurations handed to the analyzer: --sma=2 --ema=3 --vol=2 --vwap=daily,
\* without and with --symbol=AAPL.
Configs ==
    { AllOutputs @@ [sma_window |-> 2, ema_span |-> 3, vol_window |-> 2,
                     filter_symbol |-> f] : f \in { << >>, AAPL } }

\* The rows of the documented scenarios: the three-row end-to-end example,
\* the README example, and the malformed-line test of the test runner.
ScenarioLines ==
    { << "2", "0", "2", "3", "-", "0", "9", "-", "1", "5", " ", "0", "9",
         ":", "3", "0", ":", "0", "0", ",", "A", "A", "P", "L", ",", "1",
         "5", "0", ".", "0", "0", ",", "1", "0", "0", "0" >>,
      << "2", "0", "2", "3", "-", "0", "9", "-", "1", "5", " ", "0", "9",
         ":", "3", "0", ":", "3", "0", ",", "A", "A", "P", "L", ",", "1",
         "5", "0", ".", "3", "0", ",", "1", "0", "0", "0" >>,
      << "2", "0", "2", "3", "-", "0", "9", "-", "1", "5", " ", "0", "9",
         ":", "3", "1", ":", "0", "0", ",", "A", "A", "P", "L", ",", "1",
         "5", "0", ".", "6", "0", ",", "1", "0", "0", "0" >>,
      << "2", "0", "2", "3", "-", "0", "9", "-", "1", "5", " ", "0", "9",
         ":", "3", "0", ":", "0", "0", ",", "A", "A", "P", "L", ",", "1",
         "5", "0", ".", "2", "5", ",", "1", "0", "0", "0" >>,
      << "2", "0", "2", "3", "-", "0", "9", "-", "1", "5", " ", "0", "9",
         ":", "3", "0", ":", "3", "0", ",", "A", "A", "P", "L", ",", "1",
         "5", "0", ".", "3", "0", ",", "1", "5", "0", "0" >>,
      << "2", "0", "2", "3", "-", "0", "9", "-", "1", "5", " ", "0", "9",
         ":", "3", "1", ":", "0", "0", ",", "M", "S", "F", "T", ",", "2",
         "8", "5", ".", "2", "0", ",", "8", "0", "0" >>,
      << "m", "a", "l", "f", "o", "r", "m", "e", "d", ",", "l", "i", "n",
         "e", ",", "w", "i", "t", "h", "o", "u", "t", ",", "e", "n", "o",
         "u", "g", "h", ",", "f", "i", "e", "l", "d", "s", ",", "e", "x",
         "t", "r", "a" >>,
      << "2", "0", "2", "3", "-", "0", "9", "-", "1", "5", " ", "0", "9",
         ":", "3", "0", ":", "3", "0", ",", "A", "A", "P", "L", ",", "1",
         "5", "1", ".", "0", "0", ",", "1", "0", "0", "0" >>,
      << >>,
      MSFT }

\* --sma=N --ema=3 --vwap=daily for N = 2, 3, without and with --symbol=AAPL
\* (the volatility column is not requested).
ScenarioConfigs ==
    { [sma_window |-> w, ema_span |-> 3, vol_window |-> 30,
       output_sma |-> TRUE, output_ema |-> TRUE, output_vol |-> FALSE,
       output_vwap |-> TRUE, filter_symbol |-> f] :
        w \in {2, 3}, f \in { << >>, AAPL } }

\* CLIConfig's defaults
DefaultConfig ==
    [sma_window |-> 20, ema_span |-> 50, vol_window |-> 30,
     output_sma |-> FALSE, output_ema |-> FALSE, output_vol |-> FALSE,
     output_vwap |-> FALSE, filter_symbol |-> << >>]

\* No indicator is driven outside a Series.
NoIndicator == [kind |-> "none"]

\* ------------------------------------------------------------------------
\* process_file
\* ------------------------------------------------------------------------
InitWith(cfgs) ==
    /\ config \in cfgs
    /\ symbol_data = << >>
    /\ header = << >>
    /\ output = << >>
    /\ pc = "open"
    /\ line = << >>
    /\ parsed_row = InvalidRow
    /\ lines_read = 0
    /\ indicator = NoIndicator
    /\ fed = << >>
    /\ argv = << >>
    /\ file = "closed"

Init == InitWith(Configs)

\* The input file opens: the header is printed and the loop is entered.
OpenFile ==
    /\ pc = "open"
    /\ file' = "good"
    /\ pc' = "loop"
    /\ header' = print_csv_header(config)
    /\ UNCHANGED << argv, indicator, fed, config, symbol_data, output, line, parsed_row,
                    lines_read >>

\* process_file printing the header before it tests is_open().
OpenFileFailsAfterHeader ==
    /\ pc = "open"
    /\ file' = "not_open"
    /\ pc' = "failed"
    /\ header' = print_csv_header(config)
    /\ UNCHANGED << argv, indicator, fed, config, symbol_data, output, line, parsed_row,
                    lines_read >>

\* !file.is_open(): process_file returns false.
OpenFileFails ==
    /\ pc = "open"
    /\ file' = "not_open"
    /\ pc' = "failed"
    /\ UNCHANGED << argv, indicator, fed, config, symbol_data, header, output, line,
                    parsed_row, lines_read >>

\* std::getline delivers l.
GetLine(l) ==
    /\ pc = "loop"
    /\ lines_read < MaxLines
    /\ line' = l
    /\ lines_read' = lines_read + 1

\* The symbol filter with the comparison left out.
PassesFilterAlways(cfg, row) == TRUE

\* The symbol filter without the filter_symbol.empty() test.
PassesFilterNoEmptyTest(cfg, row) == row.symbol = cfg.filter_symbol

\* The symbol filter of the loop: true when the row is not skipped.
PassesFilter(cfg, row) ==
    ~(cfg.filter_symbol # << >> /\ row.symbol # cfg.filter_symbol)

\* if (line.empty()) continue;
SkipEmptyLine(l) ==
    /\ GetLine(l)
    /\ l = << >>
    /\ UNCHANGED << argv, file, indicator, fed, config, symbol_data, header, output, pc, parsed_row >>

\* parse_line runs into the null field pointer and the process dies.
ParseCrash(l) ==
    /\ GetLine(l)
    /\ l # << >>
    /\ Crashed \in parse_line(l)
    /\ pc' = "crashed"
    /\ UNCHANGED << argv, file, indicator, fed, config, symbol_data, header, output, parsed_row >>

\* if (!parsed_row.is_valid) continue;
SkipInvalidRow(l) ==
    /\ GetLine(l)
    /\ l # << >>
    /\ \E o \in parse_line(l) :
          /\ o.kind = "returned"
          /\ ~o.row.is_valid
          /\ parsed_row' = o.row
    /\ UNCHANGED << argv, file, indicator, fed, config, symbol_data, header, output, pc >>

\* The filtered-out row with get_or_create_series called ahead of the filter.
SkipFilteredRowRegisters(l) ==
    /\ GetLine(l)
    /\ l # << >>
    /\ \E o \in parse_line(l) :
          /\ o.kind = "returned"
          /\ o.row.is_valid
          /\ ~PassesFilter(config, o.row)
          /\ parsed_row' = o.row
          /\ symbol_data' = get_or_create_series(symbol_data, config, o.row.symbol)
    /\ UNCHANGED << argv, file, indicator, fed, config, header, output, pc >>

\* The row does not pass the symbol filter: continue.
SkipFilteredRow(l) ==
    /\ GetLine(l)
    /\ l # << >>
    /\ \E o \in parse_line(l) :
          /\ o.kind = "returned"
          /\ o.row.is_valid
          /\ ~PassesFilter(config, o.row)
          /\ parsed_row' = o.row
    /\ UNCHANGED << argv, file, indicator, fed, config, symbol_data, header, output, pc >>

\* The accepted row with print_csv_row called before Series::update.
ProcessRowPrintsFirst(l) ==
    /\ GetLine(l)
    /\ l # << >>
    /\ \E o \in parse_line(l) :
          /\ o.kind = "returned"
          /\ o.row.is_valid
          /\ PassesFilter(config, o.row)
          /\ LET row == o.row
                 registry == get_or_create_series(symbol_data, config, row.symbol)
                 series == SeriesUpdate(registry[row.symbol], row.price, row.volume,
                                        row.timestamp)
             IN  /\ symbol_data' = [registry EXCEPT ![row.symbol] = series]
                 /\ output' = Append(output,
                                  print_csv_row(config, row, registry[row.symbol]))
                 /\ parsed_row' = row
    /\ UNCHANGED << argv, file, indicator, fed, config, header, pc >>

\* The accepted row, with Series::update called only when some indicator
\* column is requested.
ProcessRowIfShown(l) ==
    /\ GetLine(l)
    /\ l # << >>
    /\ \E o \in parse_line(l) :
          /\ o.kind = "returned"
          /\ o.row.is_valid
          /\ PassesFilter(config, o.row)
          /\ LET row == o.row
                 registry == get_or_create_series(symbol_data, config, row.symbol)
                 shown == config.output_sma \/ config.output_ema
                              \/ config.output_vol \/ config.output_vwap
                 series == IF shown
                           THEN SeriesUpdate(registry[row.symbol], row.price,
                                             row.volume, row.timestamp)
                           ELSE registry[row.symbol]
             IN  /\ symbol_data' = [registry EXCEPT ![row.symbol] = series]
                 /\ output' = Append(output, print_csv_row(config, row, series))
                 /\ parsed_row' = row
    /\ UNCHANGED << argv, file, indicator, fed, config, header, pc >>

\* The accepted row: get_or_create_series, Series::update, print_csv_row.
ProcessRow(l) ==
    /\ GetLine(l)
    /\ l # << >>
    /\ \E o \in parse_line(l) :
          /\ o.kind = "returned"
          /\ o.row.is_valid
          /\ PassesFilter(config, o.row)
          /\ LET row == o.row
                 registry == get_or_create_series(symbol_data, config, row.symbol)
                 series == SeriesUpdate(registry[row.symbol], row.price, row.volume,
                                        row.timestamp)
             IN  /\ symbol_data' = [registry EXCEPT ![row.symbol] = series]
                 /\ output' = Append(output, print_csv_row(config, row, series))
                 /\ parsed_row' = row
    /\ UNCHANGED << argv, file, indicator, fed, config, header, pc >>

\* One iteration of the while loop on line l.
ReadLine(l) ==
    \/ SkipEmptyLine(l)
    \/ ParseCrash(l)
    \/ SkipInvalidRow(l)
    \/ SkipFilteredRow(l)
    \/ ProcessRow(l)

\* std::getline reaches the end of the input: the stream converts to false,
\* the loop ends and process_file returns true.
EndOfInput ==
    /\ pc = "loop"
    /\ file' = "eof"
    /\ pc' = "done"
    /\ UNCHANGED << argv, indicator, fed, config, symbol_data, header, output, line,
                    parsed_row, lines_read >>

\* The read of std::getline fails (badbit): the stream converts to false
\* just as at the end of the input, the loop ends and process_file returns
\* true.
ReadFails ==
    /\ pc = "loop"
    /\ file' = "bad"
    /\ pc' = "done"
    /\ UNCHANGED << argv, indicator, fed, config, symbol_data, header, output, line,
                    parsed_row, lines_read >>

Next ==
    \/ OpenFile
    \/ OpenFileFails
    \/ \E l \in LinePool : ReadLine(l)
    \/ EndOfInput
    \/ ReadFails

Spec == Init /\ [][Next]_vars

\* The same run with the program making progress: process_file is sequential
\* code, and a step that can be taken is taken.
SpecFair == Init /\ [][Next]_vars /\ WF_vars(Next)

\* The same run over the lines and configurations of the documented scenarios.
InitScenario == InitWith(ScenarioConfigs)

NextScenario ==
    \/ OpenFile
    \/ OpenFileFails
    \/ \E l \in ScenarioLines : ReadLine(l)
    \/ EndOfInput
    \/ ReadFails

SpecScenario == InitScenario /\ [][NextScenario]_vars

\* The same run under every combination of the four output flags; one row
\* has an empty symbol field.
FlagLines ==
    { JoinFields(<< Day1, AAPL, << "1" >>, << "1", "0" >> >>),
      JoinFields(<< Day1, << >>, << "2" >>, << "1", "0" >> >>),
      JoinFields(<< Day1, AAPL, << "2" >>, << "1", "0" >> >>),
      JoinFields(<< Day1, MSFT, << "2" >>, << "1", "0" >> >>),
      << >>,
      AAPL }

FlagConfigs ==
    { [sma_window |-> 2, ema_span |-> 3, vol_window |-> 2,
       output_sma |-> s, output_ema |-> e, output_vol |-> v, output_vwap |-> w,
       filter_symbol |-> f] :
        s \in BOOLEAN, e \in BOOLEAN, v \in BOOLEAN, w \in BOOLEAN,
        f \in { << >>, AAPL } }

InitFlags == InitWith(FlagConfigs)

NextFlags ==
    \/ OpenFile
    \/ OpenFileFails
    \/ \E l \in FlagLines : ReadLine(l)
    \/ EndOfInput
    \/ ReadFails

SpecFlags == InitFlags /\ [][NextFlags]_vars

\* ------------------------------------------------------------------------
\* parse_cli_args and main
\* ------------------------------------------------------------------------
\* A default-constructed CLIConfig, with its input_filename
CLIDefault == [input_filename |-> << >>] @@ DefaultConfig

\* std::stoi(value): leading white space, an optional sign and the longest
\* run of digits; std::invalid_argument without a digit.  (std::out_of_range
\* needs a value beyond INT_MAX; no argument of this model is that long.)
Stoi(value) ==
    LET p0 == SkipSet(value, 0, Whitespace)
        neg == CharAt(value, p0) = "-"
        p1 == IF CharAt(value, p0) \in {"+", "-"} THEN p0 + 1 ELSE p0
        p2 == SkipSet(value, p1, Digits)
        v == DigitsValue(value, p1, p2)
    IN  IF p2 = p1 THEN [thrown |-> TRUE]
        ELSE [thrown |-> FALSE, value |-> IF neg THEN -v ELSE v]

KeySma == << "s", "m", "a" >>
KeyEma == << "e", "m", "a" >>
KeyVol == << "v", "o", "l" >>
KeySymbol == << "s", "y", "m", "b", "o", "l" >>
KeyVwap == << "v", "w", "a", "p" >>
ValueDaily == << "d", "a", "i", "l", "y" >>

\* The branch of parse_cli_args on key, with an unrecognised key ignored.
ParseFlagIgnoringUnknown(cfg, key, value) ==
    CASE key = KeySma ->
           IF Stoi(value).thrown THEN [thrown |-> TRUE]
           ELSE [thrown |-> FALSE,
                 config |-> [cfg EXCEPT !.sma_window = Stoi(value).value,
                                        !.output_sma = TRUE]]
      [] key = KeyEma ->
           IF Stoi(value).thrown THEN [thrown |-> TRUE]
           ELSE [thrown |-> FALSE,
                 config |-> [cfg EXCEPT !.ema_span = Stoi(value).value,
                                        !.output_ema = TRUE]]
      [] key = KeyVol ->
           IF Stoi(value).thrown THEN [thrown |-> TRUE]
           ELSE [thrown |-> FALSE,
                 config |-> [cfg EXCEPT !.vol_window = Stoi(value).value,
                                        !.output_vol = TRUE]]
      [] key = KeySymbol ->
           [thrown |-> FALSE, config |-> [cfg EXCEPT !.filter_symbol = value]]
      [] key = KeyVwap ->
           IF value = ValueDaily
           THEN [thrown |-> FALSE, config |-> [cfg EXCEPT !.output_vwap = TRUE]]
           ELSE [thrown |-> TRUE]
      [] OTHER -> [thrown |-> FALSE, config |-> cfg]

\* The branch of parse_cli_args on key: the updated config, or a throw of
\* std::invalid_argument (by std::stoi or by parse_cli_args itself).
ParseFlag(cfg, key, value) ==
    CASE key = KeySma ->
           IF Stoi(value).thrown THEN [thrown |-> TRUE]
           ELSE [thrown |-> FALSE,
                 config |-> [cfg EXCEPT !.sma_window = Stoi(value).value,
                                        !.output_sma = TRUE]]
      [] key = KeyEma ->
           IF Stoi(value).thrown THEN [thrown |-> TRUE]
           ELSE [thrown |-> FALSE,
                 config |-> [cfg EXCEPT !.ema_span = Stoi(value).value,
                                        !.output_ema = TRUE]]
      [] key = KeyVol ->
           IF Stoi(value).thrown THEN [thrown |-> TRUE]
           ELSE [thrown |-> FALSE,
                 config |-> [cfg EXCEPT !.vol_window = Stoi(value).value,
                                        !.output_vol = TRUE]]
      [] key = KeySymbol ->
           [thrown |-> FALSE, config |-> [cfg EXCEPT !.filter_symbol = value]]
      [] key = KeyVwap ->
           IF value = ValueDaily
           THEN [thrown |-> FALSE, config |-> [cfg EXCEPT !.output_vwap = TRUE]]
           ELSE [thrown |-> TRUE]
      [] OTHER -> [thrown |-> TRUE]

\* The loop of parse_cli_args from argument i on, with the config so far.
RECURSIVE ParseArgsFrom(_, _, _)
ParseArgsFrom(args, i, cfg) ==
    IF i > Len(args) THEN [thrown |-> FALSE, config |-> cfg]
    ELSE LET arg == args[i]
         IN  IF Len(arg) >= 2 /\ SubSeq(arg, 1, 2) = << "-", "-" >>
             THEN IF \A k \in 1..Len(arg) : arg[k] # "="
                  THEN [thrown |-> TRUE]
                  ELSE LET eq_pos == (CHOOSE k \in 1..Len(arg) :
                                         arg[k] = "=" /\ \A j \in 1..(k - 1) : arg[j] # "=") - 1
                           key == SubSeq(arg, 3, eq_pos)
                           value == SubSeq(arg, eq_pos + 2, Len(arg))
                           r == ParseFlag(cfg, key, value)
                       IN  IF r.thrown THEN [thrown |-> TRUE]
                           ELSE ParseArgsFrom(args, i + 1, r.config)
             ELSE ParseArgsFrom(args, i + 1, [cfg EXCEPT !.input_filename = arg])

\* parse_cli_args(argc, argv)
parse_cli_args(args) == ParseArgsFrom(args, 1, CLIDefault)

\* Command-line arguments: --sma=2, --symbol=AAPL, --vwap=daily,
\* --vwap=weekly, --bogus=1, --sma, --ema=x and the file name f.csv.
ArgPool ==
    { << "-", "-", "s", "m", "a", "=", "2" >>,
      << "-", "-", "s", "y", "m", "b", "o", "l", "=", "A", "A", "P", "L" >>,
      << "-", "-", "v", "w", "a", "p", "=", "d", "a", "i", "l", "y" >>,
      << "-", "-", "v", "w", "a", "p", "=", "w", "e", "e", "k", "l", "y" >>,
      << "-", "-", "b", "o", "g", "u", "s", "=", "1" >>,
      << "-", "-", "s", "m", "a" >>,
      << "-", "-", "e", "m", "a", "=", "x" >>,
      << "f", ".", "c", "s", "v" >> }

InitCLI ==
    /\ argv \in UNION { [1..k -> ArgPool] : k \in 0..MaxArgs }
    /\ config = CLIDefault
    /\ symbol_data = << >>
    /\ header = << >>
    /\ output = << >>
    /\ pc = "main"
    /\ line = << >>
    /\ parsed_row = InvalidRow
    /\ lines_read = 0
    /\ indicator = NoIndicator
    /\ fed = << >>
    /\ file = "closed"

\* parse_cli_args throws; main catches std::exception and returns 1.
MainArgsRejected ==
    /\ pc = "main"
    /\ parse_cli_args(argv).thrown
    /\ pc' = "exit_1"
    /\ UNCHANGED << argv, file, indicator, fed, config, symbol_data, header, output, line,
                    parsed_row, lines_read >>

\* config.input_filename.empty(): main prints the usage and returns 1.
MainUsage ==
    /\ pc = "main"
    /\ ~parse_cli_args(argv).thrown
    /\ parse_cli_args(argv).config.input_filename = << >>
    /\ config' = parse_cli_args(argv).config
    /\ pc' = "exit_1"
    /\ UNCHANGED << argv, file, indicator, fed, symbol_data, header, output, line,
                    parsed_row, lines_read >>

\* main constructs the CSVAnalyzer and calls process_file.
MainCallsProcessFile ==
    /\ pc = "main"
    /\ ~parse_cli_args(argv).thrown
    /\ parse_cli_args(argv).config.input_filename # << >>
    /\ config' = parse_cli_args(argv).config
    /\ pc' = "open"
    /\ UNCHANGED << argv, file, indicator, fed, symbol_data, header, output, line,
                    parsed_row, lines_read >>

\* process_file has returned: main returns 0 on true and 1 on false.
MainReturn ==
    /\ pc \in {"done", "failed"}
    /\ pc' = IF pc = "done" THEN "exit_0" ELSE "exit_1"
    /\ UNCHANGED << argv, file, indicator, fed, config, symbol_data, header, output, line,
                    parsed_row, lines_read >>

NextCLI ==
    \/ MainArgsRejected
    \/ MainUsage
    \/ MainCallsProcessFile
    \/ OpenFile
    \/ OpenFileFails
    \/ \E l \in FlagLines : ReadLine(l)
    \/ EndOfInput
    \/ ReadFails
    \/ MainReturn

SpecCLI == InitCLI /\ [][NextCLI]_vars

\* ------------------------------------------------------------------------
\* parse_line as a function of the line
\* ------------------------------------------------------------------------
InitParse ==
    /\ config = DefaultConfig
    /\ symbol_data = << >>
    /\ header = << >>
    /\ output = << >>
    /\ pc = "call"
    /\ line \in ParseInputs
    /\ parsed_row = InvalidRow
    /\ lines_read = 0
    /\ indicator = NoIndicator
    /\ fed = << >>
    /\ argv = << >>
    /\ file = "closed"

\* parsed_row = parse_line(line), or the process dies in the call.
CallParseLine ==
    /\ pc = "call"
    /\ \E o \in parse_line(line) :
          IF o.kind = "crashed"
          THEN pc' = "crashed" /\ UNCHANGED parsed_row
          ELSE pc' = "returned" /\ parsed_row' = o.row
    /\ UNCHANGED << argv, file, indicator, fed, config, symbol_data, header, output, line, lines_read >>

NextParse == CallParseLine

SpecParse == InitParse /\ [][NextParse]_vars

\* ------------------------------------------------------------------------
\* One indicator object driven directly through its update member
\* ------------------------------------------------------------------------
\* Window sizes: SMAIndicator(int), VolatilityIndicator(size_t) built from an int
IndicatorWindows == {-1, 0, 1, 2, 3}

\* Smoothing factors: span_to_alpha of the spans 0, 1, 2 and 3, and 0.0
IndicatorAlphas == {span_to_alpha(span) : span \in {0, 1, 2, 3}} \cup {Zero}

\* Prices, each a floating-point number of at most three significant bits
IndicatorPrices == {Zero, One, QInt(2), Q(5, 2), Q(7, 4)}

\* Returns, each a floating-point number of at most three significant bits
IndicatorReturns == {Zero, Q(1, 4), Q(3, 4), Q(7, 8)}

Day1Later == << "2", "0", "2", "4", "-", "0", "1", "-", "0", "1", "T", "0", "9", ":", "3", "0" >>
ShortStamp == << "2", "0", "2", "4" >>

Trade(price, volume, timestamp) ==
    [price |-> QInt(price), volume |-> volume, timestamp |-> timestamp]

\* Arguments of VWAPIndicator::update: two days, two times of one day, a
\* timestamp shorter than the session key, an empty timestamp, and zero and
\* negative volumes.
IndicatorTrades ==
    { Trade(100, 10, Day1), Trade(200, 10, Day2), Trade(200, 10, Day1Later),
      Trade(200, -10, Day1), Trade(100, 0, Day1), Trade(100, 10, ShortStamp),
      Trade(200, 10, << >>) }

\* Arguments of Series::update: a zero price (which makes the next call a
\* first price again), two prices, two days.
SeriesTrades ==
    { Trade(price, 10, ts) : price \in {0, 1, 2}, ts \in {Day1, Day2} }

\* Series(2, 0.5, 2)
HarnessSeries == NewSeries(2, Q(1, 2), 2)

InitIndicator ==
    /\ config = DefaultConfig
    /\ symbol_data = << >>
    /\ header = << >>
    /\ output = << >>
    /\ pc = "indicator"
    /\ line = << >>
    /\ parsed_row = InvalidRow
    /\ lines_read = 0
    /\ indicator \in
          { [kind |-> "SMA", obj |-> NewSMA(w)] : w \in IndicatorWindows }
          \cup { [kind |-> "EMA", obj |-> NewEMA(a)] : a \in IndicatorAlphas }
          \cup { [kind |-> "VOLATILITY", obj |-> NewVolatility(w)] : w \in IndicatorWindows }
          \cup { [kind |-> "VWAP", obj |-> NewVWAP] }
          \cup { [kind |-> "SERIES", obj |-> HarnessSeries] }
    /\ fed = << >>
    /\ argv = << >>
    /\ file = "closed"

\* One more update call with argument arg, leaving new_obj.
Feed(arg, new_obj) ==
    /\ Len(fed) < MaxUpdates
    /\ indicator' = [indicator EXCEPT !.obj = new_obj]
    /\ fed' = Append(fed, arg)
    /\ UNCHANGED << argv, file, config, symbol_data, header, output, pc, line,
                    parsed_row, lines_read >>

FeedSMA(price) ==
    /\ indicator.kind = "SMA"
    /\ Feed(price, SMAUpdate(indicator.obj, price))

FeedEMA(price) ==
    /\ indicator.kind = "EMA"
    /\ Feed(price, EMAUpdate(indicator.obj, price))

FeedVolatility(return_val) ==
    /\ indicator.kind = "VOLATILITY"
    /\ Feed(return_val, VolatilityUpdate(indicator.obj, return_val))

FeedVWAP(trade) ==
    /\ indicator.kind = "VWAP"
    /\ Feed(trade, VWAPUpdate(indicator.obj, trade.price, trade.volume, trade.timestamp))

FeedSeries(trade) ==
    /\ indicator.kind = "SERIES"
    /\ Feed(trade, SeriesUpdate(indicator.obj, trade.price, trade.volume, trade.timestamp))

NextIndicator ==
    \/ \E trade \in SeriesTrades : FeedSeries(trade)
    \/ \E price \in IndicatorPrices : FeedSMA(price)
    \/ \E price \in IndicatorPrices : FeedEMA(price)
    \/ \E return_val \in IndicatorReturns : FeedVolatility(return_val)
    \/ \E trade \in IndicatorTrades : FeedVWAP(trade)

SpecIndicator == InitIndicator /\ [][NextIndicator]_vars

\* ------------------------------------------------------------------------
\* Reference notions used to state the properties
\* ------------------------------------------------------------------------
\* The comma-separated fields of a line, all of them.
RECURSIVE SplitAll(_)
SplitAll(l) ==
    IF \A i \in 1..Len(l) : l[i] # "," THEN << l >>
    ELSE LET c == CHOOSE i \in 1..Len(l) :
                      l[i] = "," /\ \A j \in 1..(i - 1) : l[j] # ","
         IN  << SubSeq(l, 1, c - 1) >> \o SplitAll(SubSeq(l, c + 1, Len(l)))

NumFields(l) == Len(SplitAll(l))

\* [-]digits
IsIntegerLiteral(f) ==
    LET body == IF f # << >> /\ f[1] = "-" THEN Tail(f) ELSE f
    IN  body # << >> /\ \A i \in 1..Len(body) : body[i] \in Digits

\* [+|-] digits [. digits]  or  [+|-] . digits, with at least one digit
IsDecimalLiteral(f) ==
    LET body == IF f # << >> /\ f[1] \in {"+", "-"} THEN Tail(f) ELSE f
    IN  /\ \E i \in 1..Len(body) : body[i] \in Digits
        /\ \A i \in 1..Len(body) : body[i] \in Digits \cup {"."}
        /\ Cardinality({i \in 1..Len(body) : body[i] = "."}) <= 1

\* A non-empty line that is not timestamp,symbol,decimal,integer.
Malformed(l) ==
    /\ l # << >>
    /\ \/ NumFields(l) # 4
       \/ ~IsDecimalLiteral(SplitAll(l)[3])
       \/ ~IsIntegerLiteral(SplitAll(l)[4])

\* timestamp,symbol,decimal,integer
WellFormed(l) == l # << >> /\ ~Malformed(l)

\* The number written by a string of decimal digits.
RECURSIVE NatOf(_)
NatOf(ds) ==
    IF ds = << >> THEN 0
    ELSE 10 * NatOf(SubSeq(ds, 1, Len(ds) - 1)) + DigitVal(ds[Len(ds)])

\* The number written by an integer literal.
IntegerValue(f) == IF f[1] = "-" THEN -NatOf(Tail(f)) ELSE NatOf(f)

\* The number written by a decimal literal.
DecimalValue(f) ==
    LET body == IF f[1] \in {"+", "-"} THEN Tail(f) ELSE f
        digits == SelectSeq(body, LAMBDA c : c \in Digits)
        dots == {i \in 1..Len(body) : body[i] = "."}
        decimals == IF dots = {} THEN 0 ELSE Len(body) - (CHOOSE i \in dots : TRUE)
        magnitude == Q(NatOf(digits), Pow10(decimals))
    IN  IF f[1] = "-" THEN QNeg(magnitude) ELSE magnitude

Min(a, b) == IF a < b THEN a ELSE b

\* The last m elements of a sequence.
LastN(xs, m) == SubSeq(xs, Len(xs) - m + 1, Len(xs))

\* The arithmetic mean of a non-empty sequence of numbers.
Mean(xs) == QDiv(SeqSum(xs), QInt(Len(xs)))

\* All elements of a sequence are the same.
AllEqual(xs) == \A i, j \in 1..Len(xs) : xs[i] = xs[j]

\* The last argument fed to the indicator driven directly.
LastFed == fed[Len(fed)]

\* The leading 10 characters of a trade's timestamp (all of it when shorter).
SessionKey(trade) ==
    SubSeq(trade.timestamp, 1, Min(Len(trade.timestamp), 10))

\* The maximal trailing run of the trades fed whose timestamps share the
\* leading 10 characters of the last one.
TrailingRun ==
    LET same(i) == \A j \in i..Len(fed) : SessionKey(fed[j]) = SessionKey(LastFed)
        first == CHOOSE i \in 1..Len(fed) : same(i) /\ (i = 1 \/ ~same(i - 1))
    IN  SubSeq(fed, first, Len(fed))

\* Sum of price * volume, and of volume, over a sequence of trades.
RECURSIVE SumPriceVolume(_)
SumPriceVolume(trades) ==
    IF trades = << >> THEN Zero
    ELSE QAdd(SumPriceVolume(SubSeq(trades, 1, Len(trades) - 1)),
              QMul(trades[Len(trades)].price, QInt(trades[Len(trades)].volume)))

RECURSIVE SumVolume(_)
SumVolume(trades) ==
    IF trades = << >> THEN 0
    ELSE SumVolume(SubSeq(trades, 1, Len(trades) - 1)) + trades[Len(trades)].volume

\* The line is non-empty, parses as valid and passes the symbol filter.
Accepted(l, cfg) ==
    /\ l # << >>
    /\ \E o \in parse_line(l) :
          /\ o.kind = "returned"
          /\ o.row.is_valid
          /\ cfg.filter_symbol = << >> \/ o.row.symbol = cfg.filter_symbol

\* This step read a line (line').
ReadsLine == lines_read' = lines_read + 1

\* The step appended to the output one record echoing the first two fields
\* of the line read, or left the output as it was, as the line is accepted
\* or not.
OneRecordIfAccepted ==
    IF Accepted(line', config)
    THEN /\ Len(output') = Len(output) + 1
         /\ SubSeq(output', 1, Len(output)) = output
         /\ output'[Len(output')][1] = SplitAll(line')[1]
         /\ output'[Len(output')][2] = SplitAll(line')[2]
    ELSE output' = output

\* The names of the indicator columns, in their order.
ColumnNames == << "sma", "ema", "volatility", "vwap" >>

\* The output flag of a column.
Flag(cfg, name) ==
    CASE name = "sma" -> cfg.output_sma
      [] name = "ema" -> cfg.output_ema
      [] name = "volatility" -> cfg.output_vol
      [] name = "vwap" -> cfg.output_vwap

\* The columns whose flag is set, in order.
Shown(cfg) == SelectSeq(ColumnNames, LAMBDA name : Flag(cfg, name))

\* The value of the indicator of a column name.
IndicatorNamed(series, name) ==
    CASE name = "sma" -> SMAValue(series.sma)
      [] name = "ema" -> EMAValue(series.ema)
      [] name = "volatility" -> VolatilityValue(series.volatility)
      [] name = "vwap" -> VWAPValue(series.vwap)

\* The registries that reading line l can leave, from a registry, the
\* window and span parameters and the symbol filter (and no output flag).
RegistryAfter(registry, sma_window, ema_span, vol_window, filter_symbol, l) ==
    LET rows == { o.row : o \in { po \in parse_line(l) :
                      /\ po.kind = "returned"
                      /\ po.row.is_valid
                      /\ filter_symbol = << >> \/ po.row.symbol = filter_symbol } }
    IN  IF l = << >> \/ rows = {} THEN {registry}
        ELSE { LET had == row.symbol \in DOMAIN registry
                   series == IF had THEN registry[row.symbol]
                             ELSE NewSeries(sma_window, Q(2, ema_span + 1), vol_window)
                   updated == SeriesUpdate(series, row.price, row.volume, row.timestamp)
               IN  [sym \in DOMAIN registry \cup {row.symbol} |->
                       IF sym = row.symbol THEN updated ELSE registry[sym]]
               : row \in rows }

\* The argument starts with "--".
IsFlag(arg) == Len(arg) >= 2 /\ arg[1] = "-" /\ arg[2] = "-"

\* The text of a flag between "--" and its first "=".
FlagKey(arg) ==
    LET eq == CHOOSE k \in 1..Len(arg) : arg[k] = "=" /\ \A j \in 1..(k - 1) : arg[j] # "="
    IN  SubSeq(arg, 3, eq - 1)

\* A flag without "=", or with a key other than sma, ema, vol, symbol, vwap.
BadFlag(arg) ==
    /\ IsFlag(arg)
    /\ \/ \A k \in 1..Len(arg) : arg[k] # "="
       \/ FlagKey(arg) \notin { << "s", "m", "a" >>, << "e", "m", "a" >>, << "v", "o", "l" >>,
                                << "s", "y", "m", "b", "o", "l" >>, << "v", "w", "a", "p" >> }

\* Nothing of the input was processed and nothing was written.
NothingProcessed ==
    /\ lines_read = 0
    /\ header = << >>
    /\ output = << >>
    /\ symbol_data = << >>

\* get_value() of the primitive of an indicator kind.
PrimitiveValue(series, type) ==
    IF type = "SMA" THEN SMAValue(series.sma)
    ELSE IF type = "EMA" THEN EMAValue(series.ema)
    ELSE IF type = "VOLATILITY" THEN VolatilityValue(series.volatility)
    ELSE VWAPValue(series.vwap)

\* Indicator kinds that are none of the four enumerators.
OtherKinds == {"NONE", "VOLUME"}

\* The symbol field of a line (empty when the line has no second field).
RowSymbol(l) == IF NumFields(l) >= 2 THEN SplitAll(l)[2] ELSE << >>

\* The text "int.micros" printed by "%f".
Text(int, micros) == [neg |-> FALSE, int |-> int, micros |-> micros]

FreshSeries ==
    NewSeries(config.sma_window, span_to_alpha(config.ema_span), config.vol_window)

\* The output rows of one symbol, in order.
RowsOf(sym) == SelectSeq(output, LAMBDA r : r[2] = sym)

\* This step emitted an output row (the one of parsed_row').
EmitsRow == Len(output') = Len(output) + 1

\* The Series of the emitted row's symbol before the step (a fresh one when
\* the symbol was absent).
PreSeries ==
    IF parsed_row'.symbol \in DOMAIN symbol_data
    THEN symbol_data[parsed_row'.symbol] ELSE FreshSeries

PostSeries == symbol_data'[parsed_row'.symbol]

\* The emitted row shows the indicators after the row's own price, volume
\* and timestamp went into all four of them.
EmittedAfterUpdate ==
    /\ PostSeries.sma = SMAUpdate(PreSeries.sma, parsed_row'.price)
    /\ PostSeries.ema = EMAUpdate(PreSeries.ema, parsed_row'.price)
    /\ PostSeries.vwap = VWAPUpdate(PreSeries.vwap, parsed_row'.price,
                                    parsed_row'.volume, parsed_row'.timestamp)
    /\ IF PreSeries.last_price = Zero
       THEN PostSeries.volatility # PreSeries.volatility
       ELSE PostSeries.volatility =
                VolatilityUpdate(PreSeries.volatility,
                    QSub(QDiv(parsed_row'.price, PreSeries.last_price), One))
    /\ output'[Len(output')] = print_csv_row(config, parsed_row', PostSeries)

\* The emitted row shows the indicators as they were before the row, and the
\* row went into none of them.
EmittedPreUpdate ==
    /\ PostSeries.sma = PreSeries.sma
    /\ PostSeries.ema = PreSeries.ema
    /\ PostSeries.volatility = PreSeries.volatility
    /\ PostSeries.vwap = PreSeries.vwap
    /\ output'[Len(output')] = print_csv_row(config, parsed_row', PreSeries)

\* The emitted row is the first accepted row of its symbol.
FirstRowOfSymbol == RowsOf(parsed_row'.symbol) = << >>

\* ------------------------------------------------------------------------
\* Properties
\* ------------------------------------------------------------------------

\* C1: the first update of a freshly constructed Series changes none of the
\* four sub-indicators (every get_indicator value is the fresh one, 0.0); it
\* only stores the price as last_price.
C1_FirstUpdateFrame ==
    [][\A sym \in DOMAIN symbol_data' \ DOMAIN symbol_data :
          /\ \A t \in IndicatorType :
                /\ get_indicator(symbol_data'[sym], t) = get_indicator(FreshSeries, t)
                /\ get_indicator(symbol_data'[sym], t) = Zero
          /\ symbol_data'[sym] = [FreshSeries EXCEPT !.last_price = parsed_row'.price]]_vars

\* C1 witness: a Series after its first update with a non-zero price.
C1_Witness ==
    \E sym \in DOMAIN symbol_data :
        /\ symbol_data[sym].last_price # Zero
        /\ symbol_data[sym].last_price = parsed_row.price
        /\ symbol_data[sym].sma.prices = << >>
        /\ Len(RowsOf(sym)) = 1

\* C2 as stated: every accepted row that is not the first accepted row of its
\* symbol is emitted with the indicators after its own data went in, and the
\* first accepted row of a symbol with the pre-update state.
C2_Original ==
    [][EmitsRow =>
          IF FirstRowOfSymbol THEN EmittedPreUpdate ELSE EmittedAfterUpdate]_vars

\* C2 amended: an accepted row is emitted with the indicators after its own
\* data went in exactly when the Series of its symbol holds a non-zero
\* last_price as the row arrives; the first accepted row of a symbol, and a
\* row arriving while last_price is 0.0 (the preceding accepted row of the
\* symbol had price 0.0), is emitted with the pre-update state.
C2_EmitAfterUpdate ==
    [][EmitsRow =>
          /\ FirstRowOfSymbol => PreSeries.last_price = Zero
          /\ IF PreSeries.last_price = Zero
             THEN EmittedPreUpdate ELSE EmittedAfterUpdate]_vars

\* C2 witness: a second row of a symbol has been emitted after its price went
\* into the SMA window.
C2_Witness ==
    /\ parsed_row.is_valid
    /\ Len(RowsOf(parsed_row.symbol)) >= 2
    /\ parsed_row.symbol \in DOMAIN symbol_data
    /\ symbol_data[parsed_row.symbol].sma.prices # << >>
    /\ symbol_data[parsed_row.symbol].sma.prices[Len(symbol_data[parsed_row.symbol].sma.prices)]
          = parsed_row.price
    /\ output[Len(output)] =
          print_csv_row(config, parsed_row, symbol_data[parsed_row.symbol])

\* C3: with sma_window = 2 and the first three AAPL rows priced 150.00,
\* 150.30, 150.60, the SMA emitted with them is 0.0, 150.30 and 150.45.
C3_EndToEndSMA ==
    LET rs == RowsOf(AAPL)
    IN  config.sma_window = 2 =>
          /\ (Len(rs) >= 1 /\ rs[1][3] = Text(150, 0)) => rs[1][5] = Text(0, 0)
          /\ (Len(rs) >= 2 /\ rs[1][3] = Text(150, 0) /\ rs[2][3] = Text(150, 300000))
                => rs[2][5] = Text(150, 300000)
          /\ (Len(rs) >= 3 /\ rs[1][3] = Text(150, 0) /\ rs[2][3] = Text(150, 300000)
                /\ rs[3][3] = Text(150, 600000))
                => rs[3][5] = Text(150, 450000)

\* C3 witness: the three rows have been emitted under sma_window = 2.
C3_Witness ==
    LET rs == RowsOf(AAPL)
    IN  /\ config.sma_window = 2
        /\ Len(rs) = 3
        /\ rs[1][3] = Text(150, 0)
        /\ rs[2][3] = Text(150, 300000)
        /\ rs[3][3] = Text(150, 600000)

\* C4: as in the README example, the first output row of a symbol reports
\* sma, ema and vwap equal to its own price, and after prices 150.25 and
\* 150.30 the second row reports the sma 150.275.
C4_ReadmeExample ==
    \A sym \in {AAPL, MSFT} :
        LET rs == RowsOf(sym)
        IN  /\ Len(rs) >= 1 =>
                  (rs[1][5] = rs[1][3] /\ rs[1][6] = rs[1][3] /\ rs[1][7] = rs[1][3])
            /\ (Len(rs) >= 2 /\ rs[1][3] = Text(150, 250000)
                  /\ rs[2][3] = Text(150, 300000))
                  => rs[2][5] = Text(150, 275000)

\* C5: a malformed line never ends the run and has no effect: no output
\* record, no Series created, no Series changed.
C5_MalformedSkipped ==
    [][(lines_read' = lines_read + 1 /\ Malformed(line')) =>
          (pc' = "loop" /\ output' = output /\ symbol_data' = symbol_data)]_vars

\* C6: with a non-empty filter_symbol F, a row whose symbol differs from F
\* produces no output and leaves the registry and every Series unchanged, and
\* every emitted row (and every Series) is of symbol F.
C6_FilterFrame ==
    [][config.filter_symbol # << >> =>
          /\ (lines_read' = lines_read + 1 /\ RowSymbol(line') # config.filter_symbol)
                => (output' = output /\ symbol_data' = symbol_data)
          /\ \A i \in 1..Len(output') : output'[i][2] = config.filter_symbol
          /\ DOMAIN symbol_data' \subseteq {config.filter_symbol}]_vars

\* C6 witness: under --symbol=AAPL a valid MSFT row has been read after an
\* AAPL row was emitted.
C6_Witness ==
    /\ config.filter_symbol = AAPL
    /\ line \in GoodLines
    /\ parsed_row.is_valid
    /\ parsed_row.symbol = MSFT
    /\ Len(output) >= 1
    /\ pc = "loop"

\* C7: parse_line returns valid=false for every line whose field count is
\* not exactly 4, fewer or more.
C7_FieldCountRejected ==
    (pc = "returned" /\ NumFields(line) # 4) => ~parsed_row.is_valid

\* C8: parse_line returns valid=false whenever the volume field is not
\* entirely an integer literal.
C8_VolumeFullyConsumed ==
    (pc = "returned" /\ NumFields(line) = 4 /\ ~IsIntegerLiteral(SplitAll(line)[4]))
        => ~parsed_row.is_valid

\* C9: parse_line returns valid=false whenever the price field is empty,
\* non-numeric, or does not consist of a number from its first to its last
\* character.
C9_PriceFullyConsumed ==
    (pc = "returned" /\ NumFields(line) >= 3 /\ ~IsDecimalLiteral(SplitAll(line)[3]))
        => ~parsed_row.is_valid

\* C10: parse_line is total: on every line it returns a row and never reads
\* through an unassigned field pointer.
C10_ParseTotal == pc # "crashed"

\* C11: for every line timestamp,symbol,price,volume with a decimal literal as
\* price and an integer literal as volume, parse_line returns a valid row
\* whose timestamp and symbol are the first and second fields character for
\* character and whose price and volume are the numbers written in the third
\* and fourth fields.
C11_WellFormedLineParsed ==
    (pc # "call" /\ WellFormed(line)) =>
        /\ pc = "returned"
        /\ parsed_row =
              [timestamp |-> SplitAll(line)[1], symbol |-> SplitAll(line)[2],
               price |-> DecimalValue(SplitAll(line)[3]),
               volume |-> IntegerValue(SplitAll(line)[4]), is_valid |-> TRUE]

\* C11 witness: a well-formed line whose timestamp starts with a blank has
\* been parsed to price 1.5 and volume 10.
C11_Witness ==
    /\ pc = "returned"
    /\ WellFormed(line)
    /\ parsed_row.is_valid
    /\ parsed_row.timestamp = << " ", "1" >>
    /\ parsed_row.price = Q(3, 2)
    /\ parsed_row.volume = 10

\* C12: for every line, the field spans returned by split_csv_line do not
\* overlap, are separated exactly by the commas and, with those commas, cover
\* the whole line: the first span starts the line, each next span starts
\* right after the comma that ends the span before it, no span holds a comma,
\* and the last span (the fourth, when the line has that many fields) ends
\* where the line ends.  A line with fewer than four fields has its leading
\* spans set and the others left null.
C12_SpansCoverLine ==
    LET fields == split_csv_line(line)
        n == Cardinality({k \in 0..3 : fields[k].start # NullPtr})
    IN  pc # "call" =>
          /\ n >= 1
          /\ \A k \in 0..3 : fields[k].start # NullPtr <=> k < n
          /\ fields[0].start = 0
          /\ \A k \in 0..(n - 2) :
                /\ CharAt(line, FieldEnd(fields[k])) = ","
                /\ fields[k + 1].start = FieldEnd(fields[k]) + 1
          /\ \A k \in 0..(n - 1) :
                \A i \in 1..Len(FieldText(line, fields[k])) :
                    FieldText(line, fields[k])[i] # ","
          /\ FieldEnd(fields[n - 1]) = Len(line)

\* C13: for every window size N >= 1 and every sequence of k prices fed to an
\* SMAIndicator, get_value() is the arithmetic mean of the last min(k, N)
\* prices fed, and 0.0 when k = 0.
C13_SMAMeanOfLastN ==
    (indicator.kind = "SMA" /\ indicator.obj.window_size >= 1) =>
        SMAValue(indicator.obj) =
            IF fed = << >> THEN Zero
            ELSE Mean(LastN(fed, Min(Len(fed), indicator.obj.window_size)))

\* C13 witness: three prices went into an SMA of window 2, and the mean of
\* the last two differs from the mean of all three.
C13_Witness ==
    /\ indicator.kind = "SMA"
    /\ indicator.obj.window_size = 2
    /\ Len(fed) = 3
    /\ SMAValue(indicator.obj) = Mean(<< fed[2], fed[3] >>)
    /\ SMAValue(indicator.obj) # Mean(fed)

\* C14: after any sequence of updates of an SMAIndicator of window N >= 1,
\* the number of retained prices is at most N and the retained prices are
\* the most recent ones fed, in insertion order.
C14_SMAWindowFIFO ==
    (indicator.kind = "SMA" /\ indicator.obj.window_size >= 1) =>
        /\ Len(indicator.obj.prices) <= indicator.obj.window_size
        /\ indicator.obj.prices = LastN(fed, Min(Len(fed), indicator.obj.window_size))

\* C14 witness: an SMA of window 2 has evicted twice and holds the third and
\* fourth price, the third differing from the first.
C14_Witness ==
    /\ indicator.kind = "SMA"
    /\ indicator.obj.window_size = 2
    /\ Len(fed) = 4
    /\ indicator.obj.prices = << fed[3], fed[4] >>
    /\ fed[1] # fed[3]
    /\ fed[3] # fed[4]

\* C15: EMAIndicator::get_value() is 0.0 before any update and exactly p
\* after a single update(p), for every price p and every alpha.
C15_EMASeedExact ==
    indicator.kind = "EMA" =>
        /\ fed = << >> => EMAValue(indicator.obj) = Zero
        /\ Len(fed) = 1 => EMAValue(indicator.obj) = fed[1]

\* C15 witness: an EMA of alpha 1/2 after its single update, with a non-zero
\* price.
C15_Witness ==
    /\ indicator.kind = "EMA"
    /\ indicator.obj.alpha = Q(1, 2)
    /\ Len(fed) = 1
    /\ fed[1] # Zero
    /\ EMAValue(indicator.obj) = fed[1]

\* C16: an EMAIndicator is seeded exactly once: first_price is true exactly
\* until the first update and never again, and every update after the first
\* sets current_ema to alpha * price + (1 - alpha) * current_ema.
C16_EMASeededOnce ==
    [][(indicator.kind = "EMA" /\ fed' # fed) =>
          /\ indicator.obj.first_price <=> fed = << >>
          /\ ~indicator'.obj.first_price
          /\ indicator'.obj.alpha = indicator.obj.alpha
          /\ fed # << >> =>
                indicator'.obj.current_ema =
                    QAdd(QMul(indicator.obj.alpha, fed'[Len(fed')]),
                         QMul(QSub(One, indicator.obj.alpha),
                              indicator.obj.current_ema))]_vars

\* C16 witness: an EMA of alpha 1/2 after a second update whose price is not
\* the value it holds.
C16_Witness ==
    /\ indicator.kind = "EMA"
    /\ indicator.obj.alpha = Q(1, 2)
    /\ Len(fed) = 2
    /\ ~indicator.obj.first_price
    /\ EMAValue(indicator.obj) # fed[2]
    /\ EMAValue(indicator.obj) = Mean(fed)

C18_VWAPSessionSums ==
    indicator.kind = "VWAP" =>
        /\ fed = << >> => indicator.obj = NewVWAP
        /\ fed # << >> =>
              /\ indicator.obj.price_volume_sum = SumPriceVolume(TrailingRun)
              /\ indicator.obj.volume_sum = SumVolume(TrailingRun)
              /\ indicator.obj.current_date = SessionKey(LastFed)
        /\ fed = << Trade(100, 10, Day1), Trade(200, 10, Day2) >>
              => VWAPValue(indicator.obj) = QInt(200)

\* C18 witness: a trade of the first day, then two trades of the second day
\* at different times; the accumulators hold the last two only.
C18_Witness ==
    /\ indicator.kind = "VWAP"
    /\ Len(fed) = 3
    /\ SessionKey(fed[1]) # SessionKey(fed[2])
    /\ SessionKey(fed[2]) = SessionKey(fed[3])
    /\ fed[2].timestamp # fed[3].timestamp
    /\ indicator.obj.volume_sum = fed[2].volume + fed[3].volume
    /\ indicator.obj.volume_sum # SumVolume(fed)

\* C19: VWAPIndicator::get_value() is 0.0 whenever the accumulated volume is
\* 0 (no update yet, zero-volume trades, volumes cancelling) and otherwise
\* price_volume_sum / volume_sum over the current session; the result is
\* never that of a division by zero.
C19_VWAPNoDivisionByZero ==
    indicator.kind = "VWAP" =>
        LET value == VWAPValue(indicator.obj)
            volume == IF fed = << >> THEN 0 ELSE SumVolume(TrailingRun)
        IN  /\ value.d # 0
            /\ volume = 0 => value = Zero
            /\ volume # 0 =>
                  value = QDiv(SumPriceVolume(TrailingRun), QInt(volume))

\* C19 witness: two trades of one session with volumes 10 and -10: the
\* volume sum is 0, the price-volume sum is not, and the value is 0.0.
C19_Witness ==
    /\ indicator.kind = "VWAP"
    /\ Len(fed) = 2
    /\ fed[1].volume = 10
    /\ fed[2].volume = -10
    /\ indicator.obj.volume_sum = 0
    /\ indicator.obj.price_volume_sum # Zero
    /\ VWAPValue(indicator.obj) = Zero

\* C20: get_or_create_series inserts a new Series only when the symbol is
\* absent, and for a symbol already present hands back the existing Series
\* with its state untouched: a step adds at most the Series of the row's
\* symbol, removes none, leaves the Series of the other symbols as they are,
\* and applies the row to the state the symbol's Series had (a fresh one if
\* it was absent).  Every Series is built from sma_window, 2/(ema_span+1)
\* and vol_window of the configuration.
C20_GetOrCreateSeries ==
    [][/\ DOMAIN symbol_data \subseteq DOMAIN symbol_data'
       /\ \A sym \in DOMAIN symbol_data' \ DOMAIN symbol_data :
             EmitsRow /\ sym = parsed_row'.symbol
       /\ \A sym \in DOMAIN symbol_data :
             (~EmitsRow \/ sym # parsed_row'.symbol)
                 => symbol_data'[sym] = symbol_data[sym]
       /\ EmitsRow =>
             symbol_data'[parsed_row'.symbol] =
                 SeriesUpdate(PreSeries, parsed_row'.price, parsed_row'.volume,
                              parsed_row'.timestamp)
       /\ \A sym \in DOMAIN symbol_data' :
             /\ get_or_create_series(symbol_data', config, sym) = symbol_data'
             /\ symbol_data'[sym].sma.window_size = config.sma_window
             /\ symbol_data'[sym].ema.alpha = Q(2, config.ema_span + 1)
             /\ symbol_data'[sym].volatility.window_size = config.vol_window]_vars

\* C20 witness: two symbols are registered and the Series of AAPL, looked up
\* for its second row, has kept the state of its first and taken the price
\* of the second.
C20_Witness ==
    /\ DOMAIN symbol_data = {AAPL, MSFT}
    /\ Len(RowsOf(AAPL)) = 2
    /\ Len(RowsOf(MSFT)) = 1
    /\ Len(symbol_data[AAPL].sma.prices) = 1
    /\ Len(symbol_data[AAPL].volatility.returns) = 1
    /\ symbol_data[AAPL].ema.alpha = Q(1, 2)
    /\ symbol_data[MSFT].ema.alpha = Q(1, 2)

\* C21: the registry grows monotonically: a symbol present in symbol_data is
\* present in every later state, and its Series is never replaced: after a
\* step it is the Series it was, or that Series updated with the step's row.
C21_RegistryMonotonic ==
    [][\A sym \in DOMAIN symbol_data :
          /\ sym \in DOMAIN symbol_data'
          /\ \/ symbol_data'[sym] = symbol_data[sym]
             \/ /\ sym = parsed_row'.symbol
                /\ symbol_data'[sym] =
                      SeriesUpdate(symbol_data[sym], parsed_row'.price,
                                   parsed_row'.volume, parsed_row'.timestamp)]_vars

\* C21 witness: AAPL was registered first, MSFT second, a third line has
\* been read, and both are registered.
C21_Witness ==
    /\ DOMAIN symbol_data = {AAPL, MSFT}
    /\ Len(output) >= 2
    /\ output[1][2] = AAPL
    /\ output[2][2] = MSFT
    /\ lines_read = 3

\* C22: the driver emits exactly one output record for each input line that
\* is non-empty, parses as valid and passes the symbol filter, and none for
\* any other line, in the order of the lines and before the next line is
\* read: the step that reads a line appends the record of that line when it
\* is accepted and nothing otherwise, and leaves the driver in its loop,
\* ready for the lines that follow; no other step writes a record.
C22_OneRecordPerAcceptedLine ==
    [][/\ ReadsLine => (OneRecordIfAccepted /\ pc' = "loop")
       /\ ~ReadsLine => output' = output]_vars

\* C23: the indicator columns are fixed for the whole run: the header, once
\* printed, is timestamp,symbol,price,volume followed by exactly the names
\* whose output flag is set, in the order sma, ema, volatility, vwap, the
\* flags never change, and every data row carries after its four echoed
\* fields exactly those columns, each holding the value of the indicator of
\* that name.
C23_ColumnsFollowFlags ==
    [][/\ config' = config
       /\ header' \in { << >>,
                        << "timestamp", "symbol", "price", "volume" >> \o Shown(config) }
       /\ pc' \in {"loop", "done", "crashed"} => header' # << >>
       /\ EmitsRow =>
             LET emitted == output'[Len(output')]
             IN  /\ Len(emitted) = 4 + Len(Shown(config))
                 /\ SubSeq(emitted, 1, 4) =
                       << parsed_row'.timestamp, parsed_row'.symbol,
                          to_string_double(parsed_row'.price),
                          to_string_long(parsed_row'.volume) >>
                 /\ \A k \in 1..Len(Shown(config)) :
                       emitted[4 + k] =
                           to_string_double(IndicatorNamed(PostSeries, Shown(config)[k]))]_vars

\* C23 witness: with only the ema and volatility flags set, the second row
\* of AAPL has been emitted with six columns, its ema differing from its
\* volatility.
C23_Witness ==
    /\ ~config.output_sma /\ config.output_ema
    /\ config.output_vol /\ ~config.output_vwap
    /\ header = << "timestamp", "symbol", "price", "volume", "ema", "volatility" >>
    /\ Len(RowsOf(AAPL)) = 2
    /\ Len(RowsOf(AAPL)[2]) = 6
    /\ RowsOf(AAPL)[2][5] # RowsOf(AAPL)[2][6]

\* C24: the indicator state does not depend on the output flags: the
\* registry after a line is read is determined by the registry before it,
\* the window and span parameters, the symbol filter and the line, and a
\* row that is not a seed row updates all four indicators of its Series,
\* whatever output_sma, output_ema, output_vol and output_vwap are.
C24_StateIndependentOfFlags ==
    [][/\ ReadsLine =>
             symbol_data' \in
                 RegistryAfter(symbol_data, config.sma_window, config.ema_span,
                               config.vol_window, config.filter_symbol, line')
       /\ ~ReadsLine => symbol_data' = symbol_data
       /\ (EmitsRow /\ PreSeries.last_price # Zero) =>
             /\ PostSeries.sma = SMAUpdate(PreSeries.sma, parsed_row'.price)
             /\ PostSeries.ema = EMAUpdate(PreSeries.ema, parsed_row'.price)
             /\ PostSeries.volatility =
                   VolatilityUpdate(PreSeries.volatility,
                       QSub(QDiv(parsed_row'.price, PreSeries.last_price), One))
             /\ PostSeries.vwap =
                   VWAPUpdate(PreSeries.vwap, parsed_row'.price, parsed_row'.volume,
                              parsed_row'.timestamp)]_vars

\* C24 witness: with no output flag set, the second row of AAPL has gone
\* into all four indicators of its Series.
C24_Witness ==
    /\ ~config.output_sma /\ ~config.output_ema
    /\ ~config.output_vol /\ ~config.output_vwap
    /\ AAPL \in DOMAIN symbol_data
    /\ Len(RowsOf(AAPL)) = 2
    /\ Len(RowsOf(AAPL)[2]) = 4
    /\ symbol_data[AAPL].sma.prices # << >>
    /\ ~symbol_data[AAPL].ema.first_price
    /\ symbol_data[AAPL].volatility.returns # << >>
    /\ symbol_data[AAPL].vwap.volume_sum # 0

\* C25: if the input file cannot be opened, process_file returns false, the
\* process exits with status 1, and nothing is emitted: no header, no data
\* row, and no Series is created.
C25_OpenFailure ==
    [][/\ file' = "not_open" => (pc' \in {"failed", "exit_1"} /\ NothingProcessed')
       /\ pc = "failed" => pc' = "exit_1"]_vars

\* C25 witness: the file named on the command line did not open and main
\* has returned 1.
C25_Witness ==
    /\ file = "not_open"
    /\ pc = "exit_1"
    /\ config.input_filename # << >>
    /\ config.output_sma

\* C26: a read failure of the line source in the middle of the input is
\* surfaced as a fatal error: process_file returns false and main returns 1,
\* unlike at a normal end of the input.
C26_ReadFailureSurfaced ==
    file = "bad" => pc \in {"failed", "exit_1"}

\* C28: every command line holding an argument that starts with "--" and
\* has no "=", or a --key=value whose key is not one of sma, ema, vol,
\* symbol, vwap, and every command line without a file name argument, ends
\* with exit status 1 and nothing processed: the file is never opened, no
\* line is read and nothing is written.
C28_BadCommandLineRejected ==
    (pc # "main" /\ (\/ \E i \in 1..Len(argv) : BadFlag(argv[i])
                     \/ \A i \in 1..Len(argv) : IsFlag(argv[i])))
        => (pc = "exit_1" /\ file = "closed" /\ NothingProcessed)

\* C28 witness: a command line with a file name followed by a flag of
\* unknown key has been rejected.
C28_Witness ==
    /\ pc = "exit_1"
    /\ file = "closed"
    /\ Len(argv) = 2
    /\ ~IsFlag(argv[1])
    /\ BadFlag(argv[2])
    /\ \E k \in 1..Len(argv[2]) : argv[2][k] = "="

\* C27: in every reachable Series state, get_indicator returns for each of
\* the kinds SMA, EMA, VOLATILITY, VWAP the value of the corresponding
\* primitive and does not throw; it throws invalid_argument for a kind
\* outside that set, and only then.
C27_GetIndicatorTotal ==
    \A sym \in DOMAIN symbol_data :
        /\ \A type \in {"SMA", "EMA", "VOLATILITY", "VWAP"} :
              /\ get_indicator(symbol_data[sym], type) # InvalidArgument
              /\ get_indicator(symbol_data[sym], type)
                    = PrimitiveValue(symbol_data[sym], type)
        /\ \A type \in OtherKinds :
              get_indicator(symbol_data[sym], type) = InvalidArgument

\* C27 witness: a Series whose four indicators have all been fed, its SMA
\* and VWAP values not zero.
C27_Witness ==
    \E sym \in DOMAIN symbol_data :
        /\ symbol_data[sym].volatility.returns # << >>
        /\ get_indicator(symbol_data[sym], "SMA") # Zero
        /\ get_indicator(symbol_data[sym], "VWAP") # Zero
        /\ get_indicator(symbol_data[sym], "VWAP") # InvalidArgument

\* ------------------------------------------------------------------------
\* The samples of a Series: the calls of update, by position in fed, whose
\* argument went into a sub-indicator.  Each sub-indicator is folded on its
\* own over a set of positions I.
\* ------------------------------------------------------------------------
\* last_price as the i-th call of update found it.
PriceBefore(i) == IF i = 1 THEN Zero ELSE fed[i - 1].price

RECURSIVE SMAOver(_, _, _)
SMAOver(sma, I, i) ==
    IF i > Len(fed) THEN sma
    ELSE SMAOver(IF i \in I THEN SMAUpdate(sma, fed[i].price) ELSE sma, I, i + 1)

RECURSIVE EMAOver(_, _, _)
EMAOver(ema, I, i) ==
    IF i > Len(fed) THEN ema
    ELSE EMAOver(IF i \in I THEN EMAUpdate(ema, fed[i].price) ELSE ema, I, i + 1)

RECURSIVE VolatilityOver(_, _, _)
VolatilityOver(vol, I, i) ==
    IF i > Len(fed) THEN vol
    ELSE VolatilityOver(
            IF i \in I
            THEN VolatilityUpdate(vol, QSub(QDiv(fed[i].price, PriceBefore(i)), One))
            ELSE vol, I, i + 1)

RECURSIVE VWAPOver(_, _, _)
VWAPOver(vwap, I, i) ==
    IF i > Len(fed) THEN vwap
    ELSE VWAPOver(IF i \in I
                  THEN VWAPUpdate(vwap, fed[i].price, fed[i].volume, fed[i].timestamp)
                  ELSE vwap, I, i + 1)

\* C29: after any sequence of Series::update calls there is one set of
\* calls whose arguments, and no others, went into each of the four
\* sub-indicators: SMA, EMA, Volatility and VWAP have received the same
\* samples, hence the same number of them.
C29_SameSamples ==
    indicator.kind = "SERIES" =>
        \E I \in SUBSET (1 .. Len(fed)) :
            /\ indicator.obj.sma = SMAOver(HarnessSeries.sma, I, 1)
            /\ indicator.obj.ema = EMAOver(HarnessSeries.ema, I, 1)
            /\ indicator.obj.volatility
                  = VolatilityOver(HarnessSeries.volatility, I, 1)
            /\ indicator.obj.vwap = VWAPOver(HarnessSeries.vwap, I, 1)

\* Four calls, the third with a zero price: the first and the fourth are
\* first prices, the second and the third are samples.
C29_Witness ==
    /\ indicator.kind = "SERIES"
    /\ Len(fed) = 4
    /\ fed[1].price = One
    /\ fed[2].price = QInt(2)
    /\ fed[3].price = Zero
    /\ fed[4].price = One
    /\ indicator.obj.sma.prices = << QInt(2), Zero >>
    /\ Len(indicator.obj.volatility.returns) = 2
    /\ indicator.obj.last_price = One

\* The number a six-decimal price text denotes.
PriceOfText(text) ==
    LET magnitude == Q(text.int * 1000000 + text.micros, 1000000)
    IN  IF text.neg THEN QSub(Zero, magnitude) ELSE magnitude

\* The price of the last output row of a symbol.
PrecedingPrice(sym) == PriceOfText(RowsOf(sym)[Len(RowsOf(sym))][3])

\* C30: the return fed to Volatility for an accepted row of a symbol is
\* price / prev - 1, where prev is the price of the preceding accepted row
\* of the same symbol, whatever rows of other symbols and skipped lines came
\* between; no return is fed for the symbol's first row, nor after a row of
\* price zero.  A step that accepts no row leaves every Series as it is, and
\* a step that accepts a row leaves the Series of every other symbol as it is.
C30_ReturnFromPrecedingRow ==
    [][/\ ~EmitsRow => symbol_data' = symbol_data
       /\ EmitsRow =>
             LET sym == parsed_row'.symbol
             IN  /\ DOMAIN symbol_data' = DOMAIN symbol_data \cup {sym}
                 /\ \A other \in DOMAIN symbol_data \ {sym} :
                       symbol_data'[other] = symbol_data[other]
                 /\ IF RowsOf(sym) = << >> \/ PrecedingPrice(sym) = Zero
                    THEN PostSeries.volatility = PreSeries.volatility
                    ELSE PostSeries.volatility =
                            VolatilityUpdate(PreSeries.volatility,
                                QSub(QDiv(parsed_row'.price, PrecedingPrice(sym)),
                                     One))]_vars

\* C30 witness: a row of MSFT at 2 came between the rows of AAPL at 1 and
\* at 2: the one return of AAPL is 2/1 - 1 = 1 and MSFT has none.
C30_Witness ==
    /\ Len(output) = 3
    /\ output[1][2] = AAPL
    /\ output[2][2] = MSFT
    /\ output[3][2] = AAPL
    /\ symbol_data[AAPL].volatility.returns = << One >>
    /\ symbol_data[MSFT].volatility.returns = << >>
    /\ symbol_data[MSFT].last_price = QInt(2)
    /\ symbol_data[AAPL].last_price = QInt(2)

\* The argument of the update call of this step.
NewlyFed == fed'[Len(fed')]

\* The four sub-indicators of a Series.
SubIndicators(series) ==
    << series.sma, series.ema, series.volatility, series.vwap >>

\* C31: a Series whose last_price is 0.0 takes the next update for a first
\* price: no sub-indicator is updated and last_price becomes the price, so a
\* price of 0.0 on a fresh Series leaves it fresh.  A price of 0.0 after a
\* non-zero price goes into all four sub-indicators with return -1, and the
\* update after it updates no sub-indicator and only sets last_price.
C31_ZeroPriceSentinel ==
    [][indicator.kind = "SERIES" =>
          LET series == indicator.obj
              after == indicator'.obj
              trade == NewlyFed
              previous == IF fed = << >> THEN Zero ELSE fed[Len(fed)].price
          IN  /\ series.last_price = previous
              /\ previous = Zero =>
                    /\ SubIndicators(after) = SubIndicators(series)
                    /\ after.last_price = trade.price
              /\ (series = HarnessSeries /\ trade.price = Zero) =>
                    after = HarnessSeries
              /\ (previous # Zero /\ trade.price = Zero) =>
                    /\ after.sma = SMAUpdate(series.sma, Zero)
                    /\ after.ema = EMAUpdate(series.ema, Zero)
                    /\ after.volatility =
                          VolatilityUpdate(series.volatility, QSub(Zero, One))
                    /\ after.vwap = VWAPUpdate(series.vwap, Zero, trade.volume,
                                               trade.timestamp)
                    /\ after.last_price = Zero]_vars

\* C31 witness: prices 1, 0, 2: the zero went in with return -1 and the 2
\* after it went nowhere but last_price.
C31_Witness ==
    /\ indicator.kind = "SERIES"
    /\ Len(fed) = 3
    /\ fed[1].price = One
    /\ fed[2].price = Zero
    /\ fed[3].price = QInt(2)
    /\ indicator.obj.sma.prices = << Zero >>
    /\ indicator.obj.volatility.returns = << QSub(Zero, One) >>
    /\ indicator.obj.last_price = QInt(2)

\* C32: after any sequence of updates of a VolatilityIndicator of window
\* N >= 1, fed k returns, the retained returns are the last min(k, N)
\* returns fed, in insertion order, and their count is at most N.
C32_VolatilityWindowFIFO ==
    (indicator.kind = "VOLATILITY" /\ indicator.obj.window_size >= 1) =>
        /\ Len(indicator.obj.returns) <= indicator.obj.window_size
        /\ indicator.obj.returns
              = LastN(fed, Min(Len(fed), indicator.obj.window_size))

\* C32 witness: a VolatilityIndicator of window 2 has evicted twice and holds
\* the third and fourth return, in that order.
C32_Witness ==
    /\ indicator.kind = "VOLATILITY"
    /\ indicator.obj.window_size = 2
    /\ Len(fed) = 4
    /\ indicator.obj.returns = << fed[3], fed[4] >>
    /\ fed[1] # fed[3]
    /\ fed[2] # fed[4]
    /\ fed[3] # fed[4]

\* The line is non-empty and parse_line returns a valid row for it.
ValidLine(l) ==
    /\ l # << >>
    /\ \E o \in parse_line(l) : o.kind = "returned" /\ o.row.is_valid

\* C33: with an empty filter_symbol nothing is filtered: every valid row,
\* whatever its symbol, the empty string included, is accepted: the step
\* that reads it appends one output record carrying its symbol, and the
\* registry holds a Series under that symbol, updated with the row.
C33_EmptyFilterAcceptsAll ==
    [][(ReadsLine /\ config.filter_symbol = << >> /\ ValidLine(line')) =>
          LET sym == SplitAll(line')[2]
          IN  /\ EmitsRow
              /\ output'[Len(output')][2] = sym
              /\ parsed_row'.symbol = sym
              /\ sym \in DOMAIN symbol_data'
              /\ symbol_data'[sym] =
                    SeriesUpdate(PreSeries, parsed_row'.price, parsed_row'.volume,
                                 parsed_row'.timestamp)]_vars

\* C33 witness: without a filter, rows of AAPL, of the empty symbol and of
\* MSFT have each given a record and a Series.
C33_Witness ==
    /\ config.filter_symbol = << >>
    /\ Len(output) = 3
    /\ DOMAIN symbol_data = {AAPL, << >>, MSFT}
    /\ output[2][2] = << >>
    /\ symbol_data[<< >>].last_price = QInt(2)

\* C34: process_file terminates on every finite input, having consumed each
\* line once and in order: once in its loop, it reaches the return
\* statement after the loop.
C34_ProcessFileReturns == (pc = "loop") ~> (pc = "done")

\* The quotient of a division by zero: an infinity or a NaN.
NotFinite(x) == x.d = 0

\* C35: Series::update never divides by zero: the division
\* price / last_price is executed only with last_price # 0.  A call that
\* feeds a return to Volatility found last_price non-zero, the return fed is
\* price / last_price - 1 of that non-zero last_price, and no retained return
\* is the infinity or the NaN a division by zero would give.
C35_NoDivisionByZero ==
    [][indicator.kind = "SERIES" =>
          LET series == indicator.obj
              after == indicator'.obj
          IN  /\ after.volatility # series.volatility =>
                    /\ series.last_price # Zero
                    /\ after.volatility =
                          VolatilityUpdate(series.volatility,
                              QSub(QDiv(NewlyFed.price, series.last_price), One))
              /\ \A i \in 1..Len(after.volatility.returns) :
                    ~NotFinite(after.volatility.returns[i])]_vars

\* C35 witness: prices 0, 1, 2: the 1 met a last_price of zero and was not
\* divided by it, the 2 was divided by 1.
C35_Witness ==
    /\ indicator.kind = "SERIES"
    /\ Len(fed) = 3
    /\ fed[1].price = Zero
    /\ fed[2].price = One
    /\ fed[3].price = QInt(2)
    /\ indicator.obj.volatility.returns = << One >>

\* C36: after every Series::update, on the first-price branch and on the
\* regular one, last_price is the price passed to the call: in every
\* reachable state of the driver each registered symbol has at least one
\* output row and the last_price of its Series is the price of the most
\* recent of them (0.0 only when that price is 0.0).
C36_LastPriceIsLatest ==
    \A sym \in DOMAIN symbol_data :
        /\ RowsOf(sym) # << >>
        /\ symbol_data[sym].last_price = PrecedingPrice(sym)

\* C36 witness: AAPL has taken the regular branch with price 2 after its
\* first price 1, MSFT has only had its first price.
C36_Witness ==
    /\ Len(RowsOf(AAPL)) = 2
    /\ Len(RowsOf(MSFT)) = 1
    /\ symbol_data[AAPL].volatility.returns = << One >>
    /\ symbol_data[AAPL].last_price = QInt(2)
    /\ symbol_data[MSFT].last_price = One
    /\ symbol_data[MSFT].sma.prices = << >>

\* The symbols of the lines accepted so far: those of the output rows.
AcceptedSymbols == { output[i][2] : i \in 1..Len(output) }

\* C37: in every reachable state of the driver the keys of symbol_data are
\* exactly the symbols of the lines accepted so far; with a non-empty
\* filter_symbol the registry holds at most one Series, and its key is the
\* filter symbol.
C37_RegistryKeys ==
    /\ DOMAIN symbol_data = AcceptedSymbols
    /\ config.filter_symbol # << >> =>
          DOMAIN symbol_data \subseteq {config.filter_symbol}

\* C37 witness: under the filter AAPL a row of MSFT was read and skipped
\* after a row of AAPL, and the registry holds the Series of AAPL alone.
C37_Witness ==
    /\ config.filter_symbol = AAPL
    /\ lines_read = 2
    /\ parsed_row.symbol = MSFT
    /\ parsed_row.is_valid
    /\ DOMAIN symbol_data = {AAPL}
    /\ Len(output) = 1

Max(a, b) == IF a > b THEN a ELSE b

\* C38: for every window N that --sma=N and --vol=N can give, zero and
\* negative ones included, the SMA and Volatility windows never retain more
\* than max(N, 0) samples, whatever the number of updates.
C38_WindowBounded ==
    /\ indicator.kind = "SMA" =>
          Len(indicator.obj.prices) <= Max(indicator.obj.window_size, 0)
    /\ indicator.kind = "VOLATILITY" =>
          Len(indicator.obj.returns) <= Max(indicator.obj.window_size, 0)

\* The smallest and the largest number of a non-empty sequence.
RECURSIVE MinOf(_)
MinOf(xs) ==
    IF Len(xs) = 1 THEN xs[1]
    ELSE LET m == MinOf(Tail(xs)) IN IF QLe(xs[1], m) THEN xs[1] ELSE m

RECURSIVE MaxOf(_)
MaxOf(xs) ==
    IF Len(xs) = 1 THEN xs[1]
    ELSE LET m == MaxOf(Tail(xs)) IN IF QLe(m, xs[1]) THEN xs[1] ELSE m

\* The smoothing factors of the spans >= 1 of the harness.
SpanAlphas == {span_to_alpha(span) : span \in {1, 2, 3}}

\* The EMA in double arithmetic after the updates fed so far, its smoothing
\* factor being the double 2.0 / (span + 1.0), and after all but the last.
EMAInDoubles == EMAUpdatesFl(NewEMA(Fl(indicator.obj.alpha)), fed)
EMAInDoublesBefore ==
    EMAUpdatesFl(NewEMA(Fl(indicator.obj.alpha)), SubSeq(fed, 1, Len(fed) - 1))

\* Relative rounding error of one operation: 2^-MantissaBits.
UnitRoundoff == Q(1, Pow2(MantissaBits))

Cube(x) == QMul(x, QMul(x, x))

====
